--------------------------- MODULE Spec2Model ---------------------------
(***************************************************************************)
(* State-machine model of the senslify web server: the session registry    *)
(* (rooms) and the WebSocket connection handler of senslify/sockets.py,    *)
(* the broadcast dispatcher (message), the REST upload and provisioning    *)
(* handlers of senslify/rest.py and the MongoProvider of senslify/db.py.   *)
(*                                                                         *)
(* Python values are modelled as follows.  A dict is a function; the rooms *)
(* dict maps 2-tuples <<groupid, sensorid>> to dicts from connection to    *)
(* the selected rtypeid.  A coroutine runs atomically between two awaits   *)
(* of a call that can suspend (a storage call, a send); each such stretch  *)
(* is one action.  The registry helpers (_join, _leave, _change_stream)    *)
(* contain no await and are operators on the registry value.               *)
(***************************************************************************)
EXTENDS Integers, Sequences, FiniteSets, TLC

(***************************************************************************)
(* Bounds of the model.                                                    *)
(***************************************************************************)
NumConns == 2          \* WebSocket connections
MaxRoomGroupId == 0    \* group ids named by viewers and uploads: 0..MaxRoomGroupId
MaxSensorId == 1       \* sensor ids named by viewers and uploads: 0..MaxSensorId
MaxStreamType == 1     \* reading types named by viewers and uploads: 0..MaxStreamType
MaxBatchLen == 2       \* readings per upload batch
MaxUploads == 1        \* upload requests per behaviour
MaxGroupId == 1        \* group ids named by provisioning requests: 0..MaxGroupId
MaxBatchDocs == 3       \* readings per list given to insert_readings
MaxMsgValue == 1        \* values of the keyword arguments of a Message: 0..MaxMsgValue
MaxBatchSize == 2       \* batch sizes given to insert_readings: 1..MaxBatchSize
NumProvSlots == 2      \* provisioning requests that can be in flight together
MaxProvCalls == 3      \* provisioning requests per behaviour
MaxTsOffset == 1       \* timestamps of stored readings: 1000..1000 + MaxTsOffset
MaxValOffset == 1      \* values of stored readings: 225..225 + MaxValOffset
MaxStored == 2         \* readings in storage when the provider is called directly
MaxLimit == 2          \* limit of a get_readings call: 1..MaxLimit

(***************************************************************************)
(* Program constants.                                                      *)
(***************************************************************************)
DefaultFilter == 0     \* sockets.py:87, "default to temp"
NumSeedRTypes == 5     \* db.py:480-487, the seed reading types 0..4
BATCH_SIZE == 100      \* db.py:55

Conns == 1..NumConns
RoomGroupIds == 0..MaxRoomGroupId
SensorIds == 0..MaxSensorId
StreamTypes == 0..MaxStreamType
RoomKeys == RoomGroupIds \X SensorIds
GroupIds == 0..MaxGroupId
ProvSlots == 1..NumProvSlots
SeedRTypes == 0..(NumSeedRTypes - 1)
\* The target values a provision request is made with.
Targets == {"sensor", "group", "relay"}

VARIABLES
    rooms,        \* app['rooms']: <<groupid, sensorid>> -> (connection -> rtypeid)
    wsState,      \* per connection: position of its ws_handler coroutine
    wsLocals,     \* per connection: the handler's locals groupid, sensorid
    inbox,        \* per connection: the RESP_READING messages delivered to it
    streamed,     \* history: <<conn, key>> with a filter set since conn became a member
    left,         \* history: <<conn, key, wasMember, dispatched>>: _leave executed for
                  \* conn and room key and no join since; dispatched: message has
                  \* been called for the room since
    expect,       \* history: per connection, the broadcasts whose room and type it matched
    groups,       \* storage: the groups collection
    sensors,      \* storage: the sensors collection
    rtypes,       \* storage: the rtypes collection (rtypeids)
    readings,     \* storage: the readings collection
    up,           \* the upload request in progress (rest._upload_handler)
    uploads,      \* number of upload requests started
    handed,       \* history: readings the upload path handed to message
    prov,         \* per slot: the sensor provisioning request in progress
    provLog,      \* history: the replies of the provisioning requests, in order
    api,          \* the last REST request or storage call made directly, and its outcome
    provider,     \* per provider class: the attributes of its instance (_open, ...)
    dbExists,     \* storage: the senslify database exists on the server
    wsReply,      \* the last message a ws_handler took off its socket, and its reply
    shutdown,     \* socket_shutdown_handler: its position and the state of its two iterators
    testMsg       \* utils.Message: the object under test, its __dict__ and the last call on it

vars == <<rooms, wsState, wsLocals, inbox, streamed, left, expect,
          groups, sensors, rtypes, readings, up, uploads, handed, prov, provLog, api,
          provider, dbExists, wsReply, shutdown, testMsg>>

wsVars == <<rooms, wsState, wsLocals, inbox, streamed, left, expect, wsReply, shutdown>>
dbVars == <<groups, sensors, rtypes, readings>>
upVars == <<up, uploads, handed>>
provVars == <<prov, provLog>>
apiVars == <<api>>
lifeVars == <<provider, dbExists>>

-----------------------------------------------------------------------------
(***************************************************************************)
(* Python dict helpers.                                                    *)
(***************************************************************************)
EmptyDict == [x \in {} |-> 0]

DictPut(d, k, v) == [x \in (DOMAIN d) \cup {k} |-> IF x = k THEN v ELSE d[x]]

DictDel(d, k) == [x \in (DOMAIN d) \ {k} |-> d[x]]

\* `key in rooms` for a dict all of whose keys are 2-tuples: a key of another
\* Python type (an int) compares unequal to every key.
PyKeyIn(pytype, key, d) == pytype = "tuple" /\ key \in DOMAIN d

-----------------------------------------------------------------------------
(***************************************************************************)
(* senslify/sockets.py: the registry helpers.                              *)
(***************************************************************************)
_does_room_exist(rms, groupid, sensorid) ==
    PyKeyIn("tuple", <<groupid, sensorid>>, rms)

_does_ws_exist(rms, groupid, sensorid, ws) ==
    IF ~_does_room_exist(rms, groupid, sensorid) THEN FALSE
    ELSE IF ws \notin DOMAIN rms[<<groupid, sensorid>>] THEN FALSE
    ELSE TRUE

_leave_keep(rms, groupid, sensorid, ws) == rms

_leave(rms, groupid, sensorid, ws) ==
    IF ~_does_ws_exist(rms, groupid, sensorid, ws) THEN rms
    ELSE [rms EXCEPT ![<<groupid, sensorid>>] = DictDel(@, ws)]

_join_default_one(rms, groupid, sensorid, ws) ==
    LET key == <<groupid, sensorid>>
        r1 == IF ~PyKeyIn("int", sensorid, rms) THEN DictPut(rms, key, EmptyDict) ELSE rms
    IN  IF ws \notin DOMAIN r1[key]
        THEN [r1 EXCEPT ![key] = DictPut(@, ws, DefaultFilter + 1)]
        ELSE r1

_join_no_create(rms, groupid, sensorid, ws) ==
    LET key == <<groupid, sensorid>>
    IN  IF key \notin DOMAIN rms THEN rms
        ELSE IF ws \notin DOMAIN rms[key]
        THEN [rms EXCEPT ![key] = DictPut(@, ws, DefaultFilter)]
        ELSE rms

\* _join: the room is created when `sensorid not in rooms`; rooms is keyed by
\* tuples, so the test is on an int against tuple keys.
_join(rms, groupid, sensorid, ws) ==
    LET key == <<groupid, sensorid>>
        r1 == IF ~PyKeyIn("int", sensorid, rms) THEN DictPut(rms, key, EmptyDict) ELSE rms
    IN  IF ws \notin DOMAIN r1[key]
        THEN [r1 EXCEPT ![key] = DictPut(@, ws, DefaultFilter)]
        ELSE r1

_change_stream_upsert(rms, groupid, sensorid, ws, rtypeid) ==
    LET key == <<groupid, sensorid>>
    IN  IF ~_does_room_exist(rms, groupid, sensorid)
        THEN DictPut(rms, key, DictPut(EmptyDict, ws, rtypeid))
        ELSE [rms EXCEPT ![key] = DictPut(@, ws, rtypeid)]

_change_stream(rms, groupid, sensorid, ws, rtypeid) ==
    IF ~_does_ws_exist(rms, groupid, sensorid, ws) THEN rms
    ELSE [rms EXCEPT ![<<groupid, sensorid>>][ws] = rtypeid]

\* The members of a room whose selected type is rtypeid (the test of the
\* delivery loop, `rtype == rtypeid`).
Matching(rms, key, rtypeid) ==
    IF key \in DOMAIN rms
    THEN {c \in DOMAIN rms[key] : rms[key][c] = rtypeid}
    ELSE {}

\* The names bound where message evaluates rooms[(group, sensorid)]: its
\* parameters and locals, and the module's globals.
MessageScope ==
    {"rooms", "groupid", "sensorid", "msg", "resp", "rtypeid",
     "aiohttp", "simplejson", "DBError", "filter_reading",
     "_does_room_exist", "_does_ws_exist", "_leave", "_join", "_change_stream",
     "message", "ws_handler", "socket_shutdown_handler"}

\* A dict's items in iteration order; the order of insertion is not recorded,
\* the members are taken in ascending order of connection.
RECURSIVE DictOrder(_)
DictOrder(S) ==
    IF S = {} THEN <<>>
    ELSE LET m == CHOOSE x \in S : \A y \in S : x <= y
         IN  <<m>> \o DictOrder(S \ {m})

\* The delivery loop: send to each matching member in turn; a send that raises
\* ends the loop with the exception.
RECURSIVE SendLoop(_, _, _, _, _)
SendLoop(order, room, rtypeid, broken, sent) ==
    IF order = <<>> THEN [raised |-> FALSE, exc |-> "none", sent |-> sent]
    ELSE LET ws == Head(order)
         IN  IF room[ws] = rtypeid
             THEN IF ws \in broken
                  THEN [raised |-> TRUE, exc |-> "send", sent |-> sent]
                  ELSE SendLoop(Tail(order), room, rtypeid, broken, Append(sent, ws))
             ELSE SendLoop(Tail(order), room, rtypeid, broken, sent)

\* message: the outcome of one call, the connections sent to in order and
\* the exception raised, if any.
message(rms, groupid, sensorid, msg, broken) ==
    IF ~_does_room_exist(rms, groupid, sensorid)
    THEN [raised |-> FALSE, exc |-> "none", sent |-> <<>>]
    ELSE IF "group" \notin MessageScope
    THEN [raised |-> TRUE, exc |-> "NameError", sent |-> <<>>]
    ELSE SendLoop(DictOrder(DOMAIN rms[<<groupid, sensorid>>]),
                  rms[<<groupid, sensorid>>], msg.rtypeid, broken, <<>>)

-----------------------------------------------------------------------------
(***************************************************************************)
(* senslify/db.py: MongoProvider.  A collection is a set of documents; an  *)
(* operation that can raise returns a record with the exception flag.      *)
(***************************************************************************)
Providers == {"mongo", "sql"}

\* DatabaseProvider.__init__: _open is False; _conn is not assigned before open().
NewProvider == [_open |-> FALSE, _conn |-> "unset", _is_open |-> "unset"]

\* MongoProvider.open and _GenericSQLProvider.open.
open(p) == IF ~p._open THEN [p EXCEPT !._conn = "live", !._open = TRUE] ELSE p

\* DatabaseProvider.is_open.
is_open(p) == p._open

\* MongoProvider.close: does nothing when the connection is not open.
mongo_close(p) ==
    [raised |-> FALSE,
     provider |-> IF p._open THEN [p EXCEPT !._conn = "closed", !._open = FALSE] ELSE p]

\* _GenericSQLProvider.close: raises when _open is false, and when pyodbc
\* refuses to close a closed connection; else closes the connection and
\* assigns False to the attribute _is_open.
sql_close(p) ==
    IF ~p._open \/ p._conn # "live" THEN [raised |-> TRUE, provider |-> p]
    ELSE [raised |-> FALSE, provider |-> [p EXCEPT !._conn = "closed", !._is_open = "False"]]

SetMax(S) == CHOOSE x \in S : \A y \in S : y <= x

NoQuery == [sensorid |-> 0, groupid |-> 0, rtypeid |-> 0, lo |-> 0, hi |-> 0]

NoStats == [min |-> 0, max |-> 0, avg |-> <<0, 1>>]

does_group_exist(grps, groupid) == \E d \in grps : d.groupid = groupid

does_rtype_exist(rts, rtypeid) == rtypeid \in rts

does_sensor_exist(sens, sensorid, groupid) ==
    \E d \in sens : d.sensorid = sensorid /\ d.groupid = groupid

\* The pipeline sorts the groups by groupid, descending; cursor.next() on an
\* empty cursor raises StopIteration, which the except clause turns into DBError.
find_max_groupid(grps) ==
    IF grps = {} THEN [err |-> TRUE, max |-> 0]
    ELSE [err |-> FALSE, max |-> SetMax({d.groupid : d \in grps})]

find_max_sensorid_any_group(sens, groupid) ==
    IF sens = {} THEN [err |-> TRUE, max |-> 0]
    ELSE [err |-> FALSE, max |-> SetMax({d.sensorid : d \in sens})]

\* $match on groupid, $sort by sensorid descending, first document.
find_max_sensorid_in_group(sens, groupid) ==
    LET matched == {d \in sens : d.groupid = groupid}
    IN  IF matched = {} THEN [err |-> TRUE, max |-> 0]
        ELSE [err |-> FALSE, max |-> SetMax({d.sensorid : d \in matched})]

insert_group(grps, groupid, alias) ==
    IF ~does_group_exist(grps, groupid)
    THEN [groups |-> grps \cup {[groupid |-> groupid, alias |-> alias]},
          result |-> TRUE, inserted |-> TRUE]
    ELSE [groups |-> grps, result |-> TRUE, inserted |-> FALSE]

insert_sensor(sens, sensorid, groupid, alias) ==
    IF ~does_sensor_exist(sens, sensorid, groupid)
    THEN [sensors |-> sens \cup {[sensorid |-> sensorid, groupid |-> groupid,
                                   alias |-> alias]},
          result |-> TRUE, inserted |-> TRUE]
    ELSE [sensors |-> sens, result |-> TRUE, inserted |-> FALSE]

\* The unique index of the readings collection.
ReadingKey(r) == <<r.sensorid, r.groupid, r.rtypeid, r.ts>>

Stored(store, r) == \E d \in store : ReadingKey(d) = ReadingKey(r)

\* insert_many, ordered: the documents are written in order up to the first
\* one that violates the unique index, which raises BulkWriteError.
RECURSIVE insert_many(_, _)
insert_many(store, docs) ==
    IF docs = <<>> THEN [readings |-> store, raised |-> FALSE]
    ELSE IF Stored(store, Head(docs)) THEN [readings |-> store, raised |-> TRUE]
    ELSE insert_many(store \cup {Head(docs)}, Tail(docs))

\* step = batch_size if index + batch_size < lim else lim - index, with the
\* whole rest of the list taken as one chunk.
insert_readings_step_rest(index, batch_size, lim) == lim - index

\* step = batch_size if index + batch_size < lim else lim - index.
insert_readings_step(index, batch_size, lim) ==
    IF index + batch_size < lim THEN batch_size ELSE lim - index

\* The loop of insert_readings from position index (0-based) on; chunks: the
\* slices readings[index:index+step] given to insert_many, in order.
RECURSIVE InsertChunks(_, _, _, _)
InsertChunks(store, docs, index, batch_size) ==
    LET lim == Len(docs)
        step == insert_readings_step(index, batch_size, lim)
        chunk == SubSeq(docs, index + 1, index + step)
        res == insert_many(store, chunk)
    IN  IF ~(index < lim) THEN [readings |-> store, result |-> TRUE, chunks |-> <<>>]
        ELSE IF res.raised
        THEN [readings |-> res.readings, result |-> FALSE, chunks |-> <<chunk>>]
        ELSE [InsertChunks(res.readings, docs, index + step, batch_size)
                 EXCEPT !.chunks = <<chunk>> \o @]

insert_readings(store, docs, batch_size) == InsertChunks(store, docs, 0, batch_size)

\* Python truthiness of an int (`if rtypeid:`).
PyTruthy(x) == x # 0

\* The find filter of get_readings.
ReadingsFilter(store, sensorid, groupid, rtypeid) ==
    IF PyTruthy(rtypeid)
    THEN {d \in store : d.sensorid = sensorid /\ d.groupid = groupid /\ d.rtypeid = rtypeid}
    ELSE {d \in store : d.sensorid = sensorid /\ d.groupid = groupid}

Min2(a, b) == IF a < b THEN a ELSE b

\* The outcomes of find(S).sort("ts", DESCENDING).limit(limit): the first
\* limit documents in descending ts; documents of equal ts come in any order.
SortDescLimit(S, limit) ==
    LET k == Min2(limit, Cardinality(S))
    IN  {q \in [1..k -> S] :
            /\ \A i, j \in 1..k : i < j => (q[i] # q[j] /\ q[i].ts >= q[j].ts)
            /\ \A d \in S : (\A i \in 1..k : q[i] # d) => \A i \in 1..k : d.ts <= q[i].ts}

\* get_readings: the sequences of documents the generator can yield.
get_readings(store, sensorid, groupid, rtypeid, limit) ==
    SortDescLimit(ReadingsFilter(store, sensorid, groupid, rtypeid), limit)

\* MongoProvider.get_readings_by_period: $match on sensorid and groupid, $sort
\* by ts descending, $match ts <= end_ts, $match ts >= start_ts; every
\* document of the cursor is yielded.
get_readings_by_period(p, store, sensorid, groupid, start_ts, end_ts) ==
    IF ~p._open THEN [raised |-> TRUE, docs |-> {<<>>}]
    ELSE LET matched == {d \in store : /\ d.sensorid = sensorid /\ d.groupid = groupid
                                       /\ d.ts <= end_ts /\ d.ts >= start_ts}
         IN  [raised |-> FALSE, docs |-> SortDescLimit(matched, Cardinality(matched))]

\* Positional arguments of the cursor.execute call of
\* _GenericSQLProvider.get_readings_by_period: the statement and its
\* parameters are handed to fetchall instead.
PeriodExecuteArgc == 0

\* pyodbc: Cursor.execute(sql, *parameters) raises TypeError without sql.
PyodbcExecuteRaises(argc) == argc < 1

\* _GenericSQLProvider.get_readings_by_period: WHERE sensorid=? AND groupid=?
\* AND ts >= ? AND ts < ? ORDER BY ts DESC; any exception becomes DBError.
sql_get_readings_by_period(p, store, sensorid, groupid, start_ts, end_ts) ==
    IF ~p._open \/ p._conn # "live" \/ PyodbcExecuteRaises(PeriodExecuteArgc)
    THEN [raised |-> TRUE, docs |-> {<<>>}]
    ELSE LET matched == {d \in store : /\ d.sensorid = sensorid /\ d.groupid = groupid
                                       /\ d.ts >= start_ts /\ d.ts < end_ts}
         IN  [raised |-> FALSE, docs |-> SortDescLimit(matched, Cardinality(matched))]

RECURSIVE SumVal(_)
SumVal(S) ==
    IF S = {} THEN 0
    ELSE LET d == CHOOSE x \in S : TRUE IN d.val + SumVal(S \ {d})

RECURSIVE Gcd(_, _)
Gcd(a, b) == IF b = 0 THEN a ELSE Gcd(b, a % b)

\* The quotient num/den as a fraction in lowest terms.
Fraction(num, den) == <<num \div Gcd(num, den), den \div Gcd(num, den)>>

MinVal(S) == CHOOSE x \in {d.val : d \in S} : \A y \in {d.val : d \in S} : x <= y

MaxVal(S) == SetMax({d.val : d \in S})

\* stats_sensor: $match on sensorid, groupid, rtypeid, on ts <= end_ts and on
\* ts >= start_ts, then $facet with $min, $max, $avg; empty facets give zeros.
stats_sensor(store, sensorid, groupid, rtypeid, start_ts, end_ts) ==
    LET matched == {d \in store : /\ d.sensorid = sensorid /\ d.groupid = groupid
                                  /\ d.rtypeid = rtypeid
                                  /\ d.ts <= end_ts /\ d.ts >= start_ts}
    IN  IF matched # {}
        THEN [raised |-> FALSE, kind |-> "stats", docs |-> {<<>>},
              stats |-> [min |-> MinVal(matched), max |-> MaxVal(matched),
                         avg |-> Fraction(SumVal(matched), Cardinality(matched))]]
        ELSE [raised |-> FALSE, kind |-> "stats", docs |-> {<<>>},
              stats |-> [min |-> 0, max |-> 0, avg |-> <<0, 1>>]]

\* stats_group: $match on groupid and rtypeid, $sort by ts descending, $match
\* with the dict {"ts": {$gte}, "ts": {$lte}}, in which the second "ts" entry
\* replaces the first; cursor.next() returns the first document and raises
\* StopIteration, turned into DBError, when there is none.
stats_group(store, groupid, rtypeid, start_ts, end_ts) ==
    LET matched == {d \in store : d.groupid = groupid /\ d.rtypeid = rtypeid /\ d.ts <= end_ts}
    IN  IF matched = {}
        THEN [raised |-> TRUE, kind |-> "DBError", docs |-> {<<>>}, stats |-> NoStats]
        ELSE [raised |-> FALSE, kind |-> "document", docs |-> SortDescLimit(matched, 1),
              stats |-> NoStats]

\* `count += x` with count an int: x of another type without __radd__ raises
\* TypeError.  delete_many and delete_one return a pymongo DeleteResult.
PyIAddRaises(xtype) == xtype # "int"

DeleteReturnType == "DeleteResult"

\* A Python argument that is None or an int.
None == [none |-> TRUE, v |-> 0]

PyIntArg(n) == [none |-> FALSE, v |-> n]

\* `if rtypeid:` for None or an int.
PyTruthyArg(a) == ~a.none /\ PyTruthy(a.v)

\* The query of delete_readings (both providers): what it selects.
DeleteReadingsQuery(store, sensorid, groupid, rtypeid) ==
    IF PyTruthyArg(rtypeid)
    THEN {d \in store : d.sensorid = sensorid /\ d.groupid = groupid /\ d.rtypeid = rtypeid.v}
    ELSE {d \in store : d.sensorid = sensorid /\ d.groupid = groupid}

\* MongoProvider.delete_readings: delete_many, then `count +=` of its result.
delete_readings(store, sensorid, groupid, rtypeid) ==
    [readings |-> store \ DeleteReadingsQuery(store, sensorid, groupid, rtypeid),
     raised |-> PyIAddRaises(DeleteReturnType)]

\* cursor.execute returns the pyodbc Cursor.
ExecuteReturnType == "Cursor"

\* _GenericSQLProvider.delete_readings: the DELETE, then `count +=` of what
\* execute returned; an exception rolls the transaction back.
sql_delete_readings(store, sensorid, groupid, rtypeid) ==
    IF PyIAddRaises(ExecuteReturnType)
    THEN [readings |-> store, raised |-> TRUE]
    ELSE [readings |-> store \ DeleteReadingsQuery(store, sensorid, groupid, rtypeid),
          raised |-> FALSE]

\* delete_group: the three deletes in order, each followed by `count +=`; the
\* first exception ends the call as DBError.
delete_group(store, sens, grps, groupid) ==
    LET r1 == {d \in store : d.groupid # groupid}
        s1 == {d \in sens : d.groupid # groupid}
        g1 == {d \in grps : d.groupid # groupid}
    IN  IF PyIAddRaises(DeleteReturnType)
        THEN [readings |-> r1, sensors |-> sens, groups |-> grps, raised |-> TRUE]
        ELSE [readings |-> r1, sensors |-> s1, groups |-> g1, raised |-> FALSE]

\* delete_rtype: the two deletes in order, as in delete_group.
delete_rtype(store, rts, rtypeid) ==
    LET r1 == {d \in store : d.rtypeid # rtypeid}
    IN  IF PyIAddRaises(DeleteReturnType)
        THEN [readings |-> r1, rtypes |-> rts, raised |-> TRUE]
        ELSE [readings |-> r1, rtypes |-> rts \ {rtypeid}, raised |-> FALSE]

-----------------------------------------------------------------------------
(***************************************************************************)
(* senslify/verify.py                                                      *)
(***************************************************************************)
\* _verify_upload_request on a batch whose readings carry all five fields
\* with numeric values.
verify_upload_request_any_rtype(batch, grps, sens, rts) ==
    \A i \in 1..Len(batch) :
        /\ batch[i].groupid >= 0
        /\ batch[i].sensorid >= 0
        /\ batch[i].rtypeid >= 0
        /\ batch[i].ts >= 0
        /\ does_group_exist(grps, batch[i].groupid)
        /\ does_sensor_exist(sens, batch[i].sensorid, batch[i].groupid)

verify_upload_request(batch, grps, sens, rts) ==
    \A i \in 1..Len(batch) :
        /\ batch[i].groupid >= 0
        /\ batch[i].sensorid >= 0
        /\ batch[i].rtypeid >= 0
        /\ batch[i].ts >= 0
        /\ does_group_exist(grps, batch[i].groupid)
        /\ does_sensor_exist(sens, batch[i].sensorid, batch[i].groupid)
        /\ does_rtype_exist(rts, batch[i].rtypeid)

\* The check of the loop's body that returns (False, message) for a reading.
UploadReason(r, grps, sens, rts) ==
    IF r.groupid < 0 THEN "groupid"
    ELSE IF r.sensorid < 0 THEN "sensorid"
    ELSE IF r.rtypeid < 0 THEN "rtypeid"
    ELSE IF r.ts < 0 THEN "ts"
    ELSE IF ~does_group_exist(grps, r.groupid) THEN "group"
    ELSE IF ~does_sensor_exist(sens, r.sensorid, r.groupid) THEN "sensor"
    ELSE IF ~does_rtype_exist(rts, r.rtypeid) THEN "rtype"
    ELSE "none"

\* The position in the batch at which the loop returns, and the message.
UploadRejection(batch, grps, sens, rts) ==
    LET bad == {i \in 1..Len(batch) : UploadReason(batch[i], grps, sens, rts) # "none"}
        first == CHOOSE i \in bad : \A j \in bad : i <= j
    IN  [idx |-> first, reason |-> UploadReason(batch[first], grps, sens, rts)]

\* _verify_provision_request on params that carry target, groupid, sensorid
\* (integers) and no alias; reason: the check that rejected the request.
verify_provision_request(params, grps) ==
    IF params.target # "sensor" \/ params.target # "group"
    THEN [valid |-> FALSE, reason |-> "target"]
    ELSE IF params.target = "group" /\ params.groupid < 0
    THEN [valid |-> FALSE, reason |-> "groupid"]
    ELSE IF params.target = "group" /\ does_group_exist(grps, params.groupid)
    THEN [valid |-> FALSE, reason |-> "provisioned"]
    ELSE IF params.target = "sensor" /\ params.sensorid < 0
    THEN [valid |-> FALSE, reason |-> "sensorid"]
    ELSE [valid |-> TRUE, reason |-> "none"]

-----------------------------------------------------------------------------
(***************************************************************************)
(* senslify/utils.py: Message.  A dict is the list of its <<key, value>>   *)
(* pairs in insertion order, the keys distinct.                            *)
(***************************************************************************)
\* The names given as keyword arguments: those of test.py and two that are
\* names of methods of Message.
MsgKeys == {"a", "b", "get", "clear"}

MsgValues == 0..MaxMsgValue

DictKeys(d) == {d[i][1] : i \in 1..Len(d)}

\* The keyword argument lists: **kwargs is a new dict, in the order written.
RECURSIVE Kwargs(_)
Kwargs(K) ==
    {<<>>} \cup UNION {{<<<<k, v>>>> \o l : l \in Kwargs(K \ {k}), v \in MsgValues} : k \in K}

\* Message.__init__: self.__dict__ = kwargs.
__init__(kwargs) == kwargs

\* The functions defined in class Message that are called by name.
MessageMethods == {"clear", "get", "items", "keys", "values"}

\* msg.name: object.__getattribute__ finds an entry of the instance's
\* __dict__ before a function of the class.
getattr(d, name) ==
    IF name \in DictKeys(d) THEN "attribute"
    ELSE IF name \in MessageMethods THEN "method"
    ELSE "AttributeError"

\* Message.__bool__, __contains__, __len__: looked up on the type.
__bool__(d) == Len(d) > 0

__contains__(d, key) == key \in DictKeys(d)

__len__(d) == Len(d)

DictValue(d, key) == LET i == CHOOSE j \in 1..Len(d) : d[j][1] = key IN d[i][2]

\* msg.get(key): calling an attribute that is an int raises TypeError.
get(d, key) ==
    IF getattr(d, "get") # "method" THEN [raised |-> "TypeError", v |-> 0]
    ELSE IF ~__contains__(d, key) THEN [raised |-> "KeyError", v |-> 0]
    ELSE [raised |-> "none", v |-> DictValue(d, key)]

\* list(msg.keys()) and list(msg.values()).
keys(d) ==
    IF getattr(d, "keys") # "method" THEN [raised |-> "TypeError", v |-> <<>>]
    ELSE [raised |-> "none", v |-> [i \in 1..Len(d) |-> d[i][1]]]

values(d) ==
    IF getattr(d, "values") # "method" THEN [raised |-> "TypeError", v |-> <<>>]
    ELSE [raised |-> "none", v |-> [i \in 1..Len(d) |-> d[i][2]]]

\* msg.clear(): the __dict__ after the call.
clear(d) ==
    IF getattr(d, "clear") # "method" THEN [raised |-> "TypeError", dict |-> d]
    ELSE [raised |-> "none", dict |-> <<>>]

\* No Message has been built.
NoMessage == [op |-> "none", kwargs |-> <<>>, dict |-> <<>>, raised |-> "none"]

MessageNew(kwargs) ==
    /\ testMsg' = [op |-> "__init__", kwargs |-> kwargs, dict |-> __init__(kwargs), raised |-> "none"]
    /\ UNCHANGED <<wsVars, dbVars, upVars, provVars, apiVars, lifeVars>>

MessageClear ==
    /\ testMsg.op # "none"
    /\ LET res == clear(testMsg.dict)
       IN  testMsg' = [testMsg EXCEPT !.op = "clear", !.dict = res.dict, !.raised = res.raised]
    /\ UNCHANGED <<wsVars, dbVars, upVars, provVars, apiVars, lifeVars>>

-----------------------------------------------------------------------------
(***************************************************************************)
(* Initial states.                                                         *)
(***************************************************************************)
\* socket_shutdown_handler before it is called.  key: the room of the inner
\* loop (NoKey between two rooms); outerLen, innerLen: the sizes the two dict
\* iterators recorded when they were created; outerSeen, innerSeen: what they
\* have yielded; frozen: _join has bound a new dict to the room's key, the
\* inner loop iterates the old one, which held members; closing: the connection
\* whose ws.close() is awaited; closed: the connections ws.close() was called
\* on; members0: the connections that were members when the handler started.
NoKey == <<-1, -1>>

IdleShutdown ==
    [pc |-> "idle", outerLen |-> 0, outerSeen |-> {}, key |-> NoKey,
     frozen |-> FALSE, members |-> {}, innerLen |-> 0, innerSeen |-> {},
     closing |-> 0, closed |-> {}, members0 |-> {}]

\* rooms[(groupid, sensorid)] = dict() in _join while the inner loop of
\* socket_shutdown_handler iterates the dict that was bound to that key.
Rebind(sh, rms, groupid, sensorid) ==
    IF /\ sh.pc = "await" /\ sh.key = <<groupid, sensorid>> /\ ~sh.frozen
       /\ ~PyKeyIn("int", sensorid, rms)
    THEN [sh EXCEPT !.frozen = TRUE, !.members = DOMAIN rms[sh.key]]
    ELSE sh

\* ws.closed.
ws_closed(sh, wst, ws) == wst[ws] = "closed" \/ ws \in sh.closed

\* The first key of a set of room keys, in ascending order (the order of
\* insertion is not recorded).
FirstKey(K) ==
    CHOOSE k \in K : \A j \in K : k[1] < j[1] \/ (k[1] = j[1] /\ k[2] <= j[2])

\* socket_shutdown_handler from its start, or from the return of an awaited
\* ws.close(), up to the next await, the end of the outer loop, or the
\* RuntimeError a dict iterator raises when the size of its dict has changed.
RECURSIVE socket_shutdown_handler(_, _, _)
socket_shutdown_handler(sh, rms, wst) ==
    IF sh.key = NoKey
    THEN IF Cardinality(DOMAIN rms) # sh.outerLen
         THEN [sh EXCEPT !.pc = "raised", !.closing = 0]
         ELSE IF DOMAIN rms \ sh.outerSeen = {}
         THEN [sh EXCEPT !.pc = "done", !.closing = 0]
         ELSE LET k == FirstKey(DOMAIN rms \ sh.outerSeen)
              IN  socket_shutdown_handler(
                      [sh EXCEPT !.key = k, !.outerSeen = @ \cup {k}, !.frozen = FALSE,
                                 !.members = {}, !.innerLen = Cardinality(DOMAIN rms[k]),
                                 !.innerSeen = {}], rms, wst)
    ELSE LET now == IF sh.frozen THEN sh.members ELSE DOMAIN rms[sh.key]
         IN  IF Cardinality(now) # sh.innerLen
             THEN [sh EXCEPT !.pc = "raised", !.closing = 0]
             ELSE IF now \ sh.innerSeen = {}
             THEN socket_shutdown_handler([sh EXCEPT !.key = NoKey], rms, wst)
             ELSE LET ws == Head(DictOrder(now \ sh.innerSeen))
                      seen == [sh EXCEPT !.innerSeen = @ \cup {ws}]
                  IN  IF ws_closed(sh, wst, ws)
                      THEN socket_shutdown_handler(seen, rms, wst)
                      ELSE [seen EXCEPT !.pc = "await", !.closing = ws,
                                        !.closed = @ \cup {ws}]

IdleUpload ==
    [pc |-> "idle", batch |-> <<>>, idx |-> 0, reply |-> "none", reason |-> "none",
     raised |-> FALSE]

IdleProv ==
    [pc |-> "idle", groupid |-> 0, sensorid |-> 0, alias |-> 0,
     faulty |-> FALSE, overlapped |-> FALSE, groupExisted |-> FALSE]

\* No request or call has been made yet.
IdleApi ==
    [op |-> "none", target |-> "none", reason |-> "none", status |-> 0,
     q |-> NoQuery, raised |-> FALSE, docs |-> <<>>, stats |-> NoStats,
     answer |-> "none", existed |-> FALSE, migration |-> FALSE,
     null |-> FALSE, max |-> 0, open |-> FALSE, batch_size |-> 0, chunks |-> <<>>]

\* No message has been taken off a socket yet.
NoReply ==
    [to |-> 0, rq |-> [text |-> "none", f |-> EmptyDict], cmd |-> "none",
     called |-> FALSE, dbfault |-> FALSE, sent |-> FALSE, data |-> <<>>]

\* build_app: app['rooms'] = dict(); every connection has completed its
\* handshake and waits for its first message (sensorid = 0, groupid unbound).
InitRegistry ==
    /\ rooms = EmptyDict
    /\ wsState = [c \in Conns |-> "open"]
    /\ wsLocals = [c \in Conns |-> [bound |-> FALSE, groupid |-> 0, sensorid |-> 0]]
    /\ inbox = [c \in Conns |-> <<>>]
    /\ streamed = {}
    /\ left = {}
    /\ expect = [c \in Conns |-> 0]
    /\ wsReply = NoReply
    /\ shutdown = IdleShutdown

InitRequests ==
    /\ up = IdleUpload
    /\ uploads = 0
    /\ handed = {}
    /\ prov = [p \in ProvSlots |-> IdleProv]
    /\ provLog = <<>>
    /\ api = IdleApi
    /\ testMsg = NoMessage

\* build_app: create_db, open() and init() have run for the provider in use.
InitOpened ==
    /\ provider = [k \in Providers |-> open(NewProvider)]
    /\ dbExists = TRUE

\* MongoProvider.init on an absent database: the indexes and the seed rtypes.
Init ==
    /\ InitRegistry
    /\ InitRequests
    /\ InitOpened
    /\ groups = {}
    /\ sensors = {}
    /\ rtypes = SeedRTypes
    /\ readings = {}

\* Storage after group 0 and its sensor 0 have been provisioned.
InitProvisioned ==
    /\ InitRegistry
    /\ InitRequests
    /\ InitOpened
    /\ groups = {[groupid |-> 0, alias |-> 1]}
    /\ sensors = {[sensorid |-> 0, groupid |-> 0, alias |-> 2]}
    /\ rtypes = SeedRTypes
    /\ readings = {}

-----------------------------------------------------------------------------
(***************************************************************************)
(* senslify/sockets.py: ws_handler.  One action per message taken off the  *)
(* socket by `async for msg in ws`, up to the reply it sends.              *)
(***************************************************************************)
Members(rms) == UNION {{<<c, k>> : c \in DOMAIN rms[k]} : k \in DOMAIN rms}

\* The history of the executions of _leave.
LeftWithout(c, key) == {e \in left : ~(e[1] = c /\ e[2] = key)}

LeftAfterLeave(c, g, s) ==
    LeftWithout(c, <<g, s>>) \cup {<<c, <<g, s>>, _does_ws_exist(rooms, g, s, c), FALSE>>}

LeftAfterDispatch(key) ==
    {IF e[2] = key THEN <<e[1], e[2], e[3], TRUE>> ELSE e : e \in left}

\* await ws.send_str of a reply: when the transport has failed the send raises
\* and the exception leaves ws_handler (no try around the loop).
AfterSend(sent) == IF sent THEN "open" ELSE "crashed"

Bound(g, s) == [bound |-> TRUE, groupid |-> g, sensorid |-> s]

WsJoin(c, g, s, sent) ==
    /\ wsState[c] = "open"
    /\ rooms' = _join(rooms, g, s, c)
    /\ wsLocals' = [wsLocals EXCEPT ![c] = Bound(g, s)]
    /\ wsState' = [wsState EXCEPT ![c] = AfterSend(sent)]
    /\ streamed' = (streamed \cap Members(rooms'))
                     \ (IF <<c, <<g, s>>>> \in Members(rooms) THEN {} ELSE {<<c, <<g, s>>>>})
    /\ left' = LeftWithout(c, <<g, s>>)
    /\ shutdown' = Rebind(shutdown, rooms, g, s)
    /\ UNCHANGED <<inbox, expect, dbVars, upVars, testMsg, provVars, apiVars, lifeVars, wsReply>>

WsClose(c, g, s) ==
    /\ wsState[c] = "open"
    /\ rooms' = _leave(_leave(rooms, g, s, c), g, s, c)
    /\ wsLocals' = [wsLocals EXCEPT ![c] = Bound(g, s)]
    /\ wsState' = [wsState EXCEPT ![c] = "closed"]
    /\ streamed' = streamed \cap Members(rooms')
    /\ left' = LeftAfterLeave(c, g, s)
    /\ UNCHANGED <<inbox, expect, dbVars, upVars, testMsg, provVars, apiVars, lifeVars, wsReply, shutdown>>

\* RQST_STREAM: _change_stream, then the reply with the recent readings (or
\* the error reply when get_readings raises DBError).
WsStream(c, g, s, t, sent) ==
    /\ wsState[c] = "open"
    /\ rooms' = _change_stream(rooms, g, s, c, t)
    /\ wsLocals' = [wsLocals EXCEPT ![c] = Bound(g, s)]
    /\ wsState' = [wsState EXCEPT ![c] = AfterSend(sent)]
    /\ streamed' = IF _does_ws_exist(rooms, g, s, c)
                   THEN streamed \cup {<<c, <<g, s>>>>}
                   ELSE streamed
    /\ UNCHANGED <<inbox, left, expect, dbVars, upVars, testMsg, provVars, apiVars, lifeVars, wsReply, shutdown>>

\* RQST_SENSOR_STATS, RQST_DOWNLOAD or an unknown cmd with integer groupid and
\* sensorid: the locals are assigned, the registry is not touched.
WsOther(c, g, s, sent) ==
    /\ wsState[c] = "open"
    /\ wsLocals' = [wsLocals EXCEPT ![c] = Bound(g, s)]
    /\ wsState' = [wsState EXCEPT ![c] = AfterSend(sent)]
    /\ UNCHANGED <<rooms, inbox, streamed, left, expect,
                   dbVars, upVars, testMsg, provVars, apiVars, lifeVars, wsReply, shutdown>>

\* A message that is not JSON, is empty or lacks cmd, groupid or sensorid: an
\* error reply; withGroup: groupid converts and sensorid does not, so the
\* assignment of line 193 has taken place.
WsInvalid(c, withGroup, g, sent) ==
    /\ wsState[c] = "open"
    /\ wsLocals' = IF withGroup
                   THEN [wsLocals EXCEPT ![c].bound = TRUE, ![c].groupid = g]
                   ELSE wsLocals
    /\ wsState' = [wsState EXCEPT ![c] = AfterSend(sent)]
    /\ UNCHANGED <<rooms, inbox, streamed, left, expect,
                   dbVars, upVars, testMsg, provVars, apiVars, lifeVars, wsReply, shutdown>>

\* The peer closes: the loop ends and line 316 runs _leave with the locals of
\* the last command; with groupid never assigned it raises UnboundLocalError.
WsPeerClose(c) ==
    /\ wsState[c] \in {"open", "closing"}
    /\ IF wsLocals[c].bound
       THEN /\ rooms' = _leave(rooms, wsLocals[c].groupid, wsLocals[c].sensorid, c)
            /\ wsState' = [wsState EXCEPT ![c] = "closed"]
            /\ left' = LeftAfterLeave(c, wsLocals[c].groupid, wsLocals[c].sensorid)
       ELSE /\ rooms' = rooms
            /\ wsState' = [wsState EXCEPT ![c] = "crashed"]
            /\ left' = left
    /\ streamed' = streamed \cap Members(rooms')
    /\ UNCHANGED <<wsLocals, inbox, expect, dbVars, upVars, testMsg, provVars, apiVars, lifeVars, wsReply, shutdown>>

\* A WSMsgType.ERROR message: resp = dict(); resp['cmd'] == ... raises KeyError.
WsError(c) ==
    /\ wsState[c] = "open"
    /\ wsState' = [wsState EXCEPT ![c] = "crashed"]
    /\ UNCHANGED <<rooms, wsLocals, inbox, streamed, left, expect,
                   dbVars, upVars, testMsg, provVars, apiVars, lifeVars, wsReply, shutdown>>

-----------------------------------------------------------------------------
(***************************************************************************)
(* senslify/rest.py: rest_handler with cmd 'upload' and _upload_handler.   *)
(***************************************************************************)
Reading(g, s, t) == [groupid |-> g, sensorid |-> s, rtypeid |-> t, ts |-> 1000, val |-> 225]

\* The reading types uploads name: the ones viewers select and one that is
\* not among the seed types.
UploadTypes == StreamTypes \cup {NumSeedRTypes}

UploadReadings == {Reading(g, s, t) : g \in RoomGroupIds, s \in SensorIds, t \in UploadTypes}

Batches == UNION {[1..n -> UploadReadings] : n \in 0..MaxBatchLen}

SeqRange(q) == {q[i] : i \in 1..Len(q)}

\* rest_handler: verify_rest_request, then dispatch to _upload_handler.
UploadBegin(batch) ==
    /\ up.pc = "idle"
    /\ uploads < MaxUploads
    /\ uploads' = uploads + 1
    /\ up' = IF ~verify_upload_request(batch, groups, sensors, rtypes)
             THEN [IdleUpload EXCEPT
                     !.reply = "400",
                     !.idx = UploadRejection(batch, groups, sensors, rtypes).idx,
                     !.reason = UploadRejection(batch, groups, sensors, rtypes).reason]
             ELSE [pc |-> IF Len(batch) = 0 THEN "insert" ELSE "message",
                   batch |-> batch, idx |-> 1, reply |-> "none", reason |-> "none",
                   raised |-> FALSE]
    /\ UNCHANGED <<wsVars, dbVars, handed, testMsg, provVars, apiVars, lifeVars>>

\* One turn of the loop of lines 244-248: await message(...) for reading idx;
\* an exception is caught at line 251 and answered with the 403 error.
\* broken: the connections a send to which raises, the terminated ones among them.
UploadMessage(broken) ==
    /\ up.pc = "message"
    /\ {c \in Conns : wsState[c] # "open"} \subseteq broken
    /\ LET reading == up.batch[up.idx]
           key == <<reading.groupid, reading.sensorid>>
           res == message(rooms, reading.groupid, reading.sensorid, reading, broken)
           resp == [rtypeid |-> reading.rtypeid, ts |-> reading.ts, val |-> reading.val]
       IN  /\ handed' = handed \cup {reading}
           /\ left' = LeftAfterDispatch(key)
           /\ expect' = [c \in Conns |->
                            IF c \in Matching(rooms, key, reading.rtypeid)
                            THEN expect[c] + 1 ELSE expect[c]]
           /\ inbox' = [c \in Conns |->
                            IF c \in SeqRange(res.sent)
                            THEN Append(inbox[c], resp) ELSE inbox[c]]
           /\ up' = IF res.raised
                    THEN [up EXCEPT !.pc = "idle", !.reply = "403", !.raised = TRUE]
                    ELSE IF up.idx = Len(up.batch)
                    THEN [up EXCEPT !.pc = "insert"]
                    ELSE [up EXCEPT !.idx = up.idx + 1]
    /\ UNCHANGED <<rooms, wsState, wsLocals, streamed, dbVars, uploads, testMsg, provVars, apiVars, lifeVars, wsReply, shutdown>>

\* Line 250: await insert_readings(readings); the (result, error) pair it
\* returns is dropped.  fault: the first insert_many fails in the backend.
UploadInsert(fault) ==
    /\ up.pc = "insert"
    /\ readings' = IF fault THEN readings
                   ELSE insert_readings(readings, up.batch, BATCH_SIZE).readings
    /\ up' = [up EXCEPT !.pc = "idle", !.reply = "OK"]
    /\ UNCHANGED <<wsVars, groups, sensors, rtypes, uploads, handed, testMsg, provVars, apiVars, lifeVars>>

-----------------------------------------------------------------------------
(***************************************************************************)
(* senslify/rest.py: _provision_handler.                                   *)
(***************************************************************************)
InFlight == {p \in ProvSlots : prov[p].pc # "idle"}

ProvStarted == Len(provLog) + Cardinality(InFlight)

\* target 'sensor', lines 176-191: the alias, the awaited lookup of the
\* group's maximum sensorid (DBError counts as "no sensor": -1) and the new id.
\* fault: the lookup fails in the backend.
ProvLookup(p, g, fault) ==
    /\ prov[p].pc = "idle"
    /\ ProvStarted < MaxProvCalls
    /\ LET doc == IF fault THEN [err |-> TRUE, max |-> 0]
                  ELSE find_max_sensorid_in_group(sensors, g)
           max_sensorid == IF doc.err THEN -1 ELSE doc.max
           rivals == {q \in InFlight : prov[q].groupid = g}
       IN  prov' = [q \in ProvSlots |->
                      IF q = p
                      THEN [pc |-> "insert", groupid |-> g, sensorid |-> max_sensorid + 1,
                            alias |-> ProvStarted + 1, faulty |-> fault,
                            overlapped |-> rivals # {},
                            groupExisted |-> does_group_exist(groups, g)]
                      ELSE IF q \in rivals THEN [prov[q] EXCEPT !.overlapped = TRUE]
                      ELSE prov[q]]
    /\ UNCHANGED <<wsVars, dbVars, upVars, testMsg, provLog, apiVars, lifeVars>>

\* Lines 192-205: the awaited insert_sensor and the reply.  fault: the insert
\* fails in the backend and insert_sensor returns (False, DBError).
ProvInsert(p, fault) ==
    /\ prov[p].pc = "insert"
    /\ LET res == IF fault THEN [sensors |-> sensors, result |-> FALSE, inserted |-> FALSE]
                  ELSE insert_sensor(sensors, prov[p].sensorid, prov[p].groupid, prov[p].alias)
       IN  /\ sensors' = res.sensors
           /\ provLog' = Append(provLog,
                            [groupid |-> prov[p].groupid, sensorid |-> prov[p].sensorid,
                             status |-> IF res.result THEN 200 ELSE 403,
                             inserted |-> res.inserted, faulty |-> prov[p].faulty,
                             overlapped |-> prov[p].overlapped,
                             groupExisted |-> prov[p].groupExisted])
    /\ prov' = [prov EXCEPT ![p] = IdleProv]
    /\ UNCHANGED <<wsVars, groups, rtypes, readings, upVars, testMsg, apiVars, lifeVars>>

\* target 'group', lines 206-230.
ProvGroup(fault) ==
    /\ LET doc == IF fault THEN [err |-> TRUE, max |-> 0] ELSE find_max_groupid(groups)
           max_groupid == IF doc.err THEN -1 ELSE doc.max
           groupid == max_groupid + 1
       IN  /\ groupid \in GroupIds
           /\ groups' = insert_group(groups, groupid, 0).groups
           /\ groups' # groups
    /\ UNCHANGED <<wsVars, sensors, rtypes, readings, upVars, testMsg, provVars, apiVars, lifeVars>>

-----------------------------------------------------------------------------
(***************************************************************************)
(* senslify/db.py: calls made on the provider itself, over a storage with  *)
(* every group and sensor provisioned.                                     *)
(***************************************************************************)
TsValues == {1000 + i : i \in 0..MaxTsOffset}

Vals == {225 + i : i \in 0..MaxValOffset}

Limits == 1..MaxLimit

ReadingAt(g, s, t, ts, val) ==
    [groupid |-> g, sensorid |-> s, rtypeid |-> t, ts |-> ts, val |-> val]

\* The readings a batch is made of, and the batches: the lists of distinct
\* readings among them.
BatchReadings == {ReadingAt(0, 0, 0, 1000 + i, 225) : i \in 1..MaxBatchDocs}

RECURSIVE ListsOver(_)
ListsOver(S) ==
    {<<>>} \cup UNION {{<<d>> \o l : l \in ListsOver(S \ {d})} : d \in S}

BatchSizes == 1..MaxBatchSize

StoreReadings ==
    {ReadingAt(g, s, t, ts, val) :
        g \in GroupIds, s \in SensorIds, t \in StreamTypes, ts \in TsValues, val \in Vals}

InitStore ==
    /\ InitRegistry
    /\ InitRequests
    /\ InitOpened
    /\ groups = {[groupid |-> g, alias |-> g + 1] : g \in GroupIds}
    /\ sensors = {[sensorid |-> s, groupid |-> g, alias |-> s + 1] :
                    s \in SensorIds, g \in GroupIds}
    /\ rtypes = SeedRTypes
    /\ readings = {}

Call(op, q) == [IdleApi EXCEPT !.op = op, !.q = q]

StoreInsert(doc) ==
    /\ Cardinality(readings) < MaxStored
    /\ LET res == insert_readings(readings, <<doc>>, BATCH_SIZE)
       IN  /\ readings' = res.readings
           /\ api' = [Call("insert_readings", NoQuery) EXCEPT
                        !.docs = <<doc>>, !.raised = ~res.result]
    /\ UNCHANGED <<wsVars, groups, sensors, rtypes, upVars, testMsg, provVars, lifeVars>>

\* insert_readings(readings, batch_size) of the opened MongoProvider.
InsertReadings(docs, batch_size) ==
    /\ LET res == insert_readings(readings, docs, batch_size)
       IN  /\ readings' = res.readings
           /\ api' = [Call("insert_readings", NoQuery) EXCEPT
                        !.docs = docs, !.batch_size = batch_size,
                        !.chunks = res.chunks, !.raised = ~res.result]
    /\ UNCHANGED <<wsVars, groups, sensors, rtypes, upVars, testMsg, provVars, lifeVars>>

GetReadings(s, g, t, limit) ==
    /\ \E out \in get_readings(readings, s, g, t, limit) :
          api' = [Call("get_readings",
                       [sensorid |-> s, groupid |-> g, rtypeid |-> t, lo |-> limit, hi |-> 0])
                  EXCEPT !.docs = out]
    /\ UNCHANGED <<wsVars, dbVars, upVars, testMsg, provVars, lifeVars>>

StatsSensor(s, g, t, lo, hi) ==
    /\ LET res == stats_sensor(readings, s, g, t, lo, hi)
       IN  \E d \in res.docs :
             api' = [Call("stats_sensor",
                          [sensorid |-> s, groupid |-> g, rtypeid |-> t, lo |-> lo, hi |-> hi])
                     EXCEPT !.raised = res.raised, !.reason = res.kind,
                            !.docs = d, !.stats = res.stats]
    /\ UNCHANGED <<wsVars, dbVars, upVars, testMsg, provVars, lifeVars>>

StatsGroup(g, t, lo, hi) ==
    /\ LET res == stats_group(readings, g, t, lo, hi)
       IN  \E d \in res.docs :
             api' = [Call("stats_group",
                          [sensorid |-> 0, groupid |-> g, rtypeid |-> t, lo |-> lo, hi |-> hi])
                     EXCEPT !.raised = res.raised, !.reason = res.kind,
                            !.docs = d, !.stats = res.stats]
    /\ UNCHANGED <<wsVars, dbVars, upVars, testMsg, provVars, lifeVars>>

\* get_readings_by_period of the provider class kind, the generator run to its end.
GetReadingsByPeriod(kind, s, g, lo, hi) ==
    /\ LET res == IF kind = "mongo"
                  THEN get_readings_by_period(provider[kind], readings, s, g, lo, hi)
                  ELSE sql_get_readings_by_period(provider[kind], readings, s, g, lo, hi)
       IN  \E out \in res.docs :
             api' = [Call("get_readings_by_period",
                          [sensorid |-> s, groupid |-> g, rtypeid |-> 0, lo |-> lo, hi |-> hi])
                     EXCEPT !.target = kind, !.raised = res.raised, !.docs = out]
    /\ UNCHANGED <<wsVars, dbVars, upVars, testMsg, provVars, lifeVars>>

RTypeArgs == {None} \cup {PyIntArg(t) : t \in StreamTypes}

DeleteReadings(kind, s, g, rtypeid) ==
    /\ LET res == IF kind = "mongo" THEN delete_readings(readings, s, g, rtypeid)
                  ELSE sql_delete_readings(readings, s, g, rtypeid)
       IN  /\ readings' = res.readings
           /\ api' = [Call("delete_readings",
                           [NoQuery EXCEPT !.sensorid = s, !.groupid = g, !.rtypeid = rtypeid])
                      EXCEPT !.target = kind, !.raised = res.raised]
    /\ UNCHANGED <<wsVars, groups, sensors, rtypes, upVars, testMsg, provVars, lifeVars>>

DeleteGroup(g) ==
    /\ LET res == delete_group(readings, sensors, groups, g)
       IN  /\ readings' = res.readings
           /\ sensors' = res.sensors
           /\ groups' = res.groups
           /\ api' = [Call("delete_group", [NoQuery EXCEPT !.groupid = g])
                      EXCEPT !.raised = res.raised]
    /\ UNCHANGED <<wsVars, rtypes, upVars, testMsg, provVars, lifeVars>>

DeleteRType(t) ==
    /\ LET res == delete_rtype(readings, rtypes, t)
       IN  /\ readings' = res.readings
           /\ rtypes' = res.rtypes
           /\ api' = [Call("delete_rtype", [NoQuery EXCEPT !.rtypeid = t])
                      EXCEPT !.raised = res.raised]
    /\ UNCHANGED <<wsVars, groups, sensors, upVars, testMsg, provVars, lifeVars>>

\* rest_handler with cmd 'provision': verify_rest_request, the 400 reply when
\* it fails, else the dispatch to _provision_handler.
RestProvision(target, g, s) ==
    LET params == [target |-> target, groupid |-> g, sensorid |-> s]
        v == verify_provision_request(params, groups)
    IN  IF ~v.valid
        THEN /\ api' = [IdleApi EXCEPT !.op = "provision", !.target = target,
                                       !.reason = v.reason, !.status = 400]
             /\ UNCHANGED <<wsVars, dbVars, upVars, testMsg, provVars, lifeVars>>
        ELSE IF target = "sensor"
        THEN \E p \in ProvSlots, fault \in BOOLEAN : ProvLookup(p, g, fault)
        ELSE \E fault \in BOOLEAN : ProvGroup(fault)

-----------------------------------------------------------------------------
(***************************************************************************)
(* senslify/db.py: a provider from its construction on: open, close, init  *)
(* and calls made while it is open or closed.                              *)
(***************************************************************************)
\* What the operator types at the prompt of MongoProvider.init.
Answers == {"y", "Y", "n"}

\* str.lower on an answer.
PyLower(a) == IF a = "Y" THEN "y" ELSE a

Database(grps, sens, rts, store) ==
    [groups |-> grps, sensors |-> sens, rtypes |-> rts, readings |-> store]

\* The collections of a database that does not exist.
EmptyDb == Database({}, {}, {}, {})

init_drop_unasked(p, exists, db, answer, migration) ==
    IF ~p._open THEN [raised |-> FALSE, exists |-> exists, db |-> db]
    ELSE IF exists THEN [raised |-> FALSE, exists |-> FALSE, db |-> EmptyDb]
    ELSE [raised |-> FALSE, exists |-> TRUE,
          db |-> [db EXCEPT !.rtypes = IF migration THEN db.rtypes ELSE SeedRTypes]]

\* MongoProvider.init: returns when the connection is not open; on an existing
\* database drops it if the answer is y and returns in either case; on an
\* absent one creates the indexes and, unless migration, inserts the seed rtypes.
init(p, exists, db, answer, migration) ==
    IF ~p._open THEN [raised |-> FALSE, exists |-> exists, db |-> db]
    ELSE IF exists
    THEN IF PyLower(answer) = "y"
         THEN [raised |-> FALSE, exists |-> FALSE, db |-> EmptyDb]
         ELSE [raised |-> FALSE, exists |-> exists, db |-> db]
    ELSE [raised |-> FALSE, exists |-> TRUE,
          db |-> [db EXCEPT !.rtypes = IF migration THEN db.rtypes ELSE SeedRTypes]]

\* The rows of a table of the relational database: its INSERT statements
\* ('INSERT INTO GROUPS VALUES (groupid=?, alias=?)') are not valid SQL, so
\* the provider stores no row.
SqlRows == {}

\* _GenericSQLProvider.find_max_groupid: SELECT MAX(groupid) FROM GROUPS; the
\* row fetched is returned, (NULL,) for an empty table.
sql_find_max_groupid(p, rows) ==
    IF ~p._open \/ p._conn # "live" THEN [err |-> TRUE, null |-> FALSE, max |-> 0]
    ELSE IF rows = {} THEN [err |-> FALSE, null |-> TRUE, max |-> 0]
    ELSE [err |-> FALSE, null |-> FALSE, max |-> SetMax({d.groupid : d \in rows})]

\* _GenericSQLProvider.find_max_sensorid_in_group: SELECT MAX(sensorid) FROM
\* SENSORS, without a WHERE clause.
sql_find_max_sensorid_in_group(p, rows, groupid) ==
    IF ~p._open \/ p._conn # "live" THEN [err |-> TRUE, null |-> FALSE, max |-> 0]
    ELSE IF rows = {} THEN [err |-> FALSE, null |-> TRUE, max |-> 0]
    ELSE [err |-> FALSE, null |-> FALSE, max |-> SetMax({d.sensorid : d \in rows})]

CallOn(op, kind) == [IdleApi EXCEPT !.op = op, !.target = kind]

ProviderOpen(kind) ==
    /\ provider' = [provider EXCEPT ![kind] = open(provider[kind])]
    /\ api' = CallOn("open", kind)
    /\ UNCHANGED <<wsVars, dbVars, upVars, testMsg, provVars, dbExists>>

ProviderClose(kind) ==
    /\ LET res == IF kind = "mongo" THEN mongo_close(provider[kind])
                  ELSE sql_close(provider[kind])
       IN  /\ provider' = [provider EXCEPT ![kind] = res.provider]
           /\ api' = [CallOn("close", kind) EXCEPT !.raised = res.raised]
    /\ UNCHANGED <<wsVars, dbVars, upVars, testMsg, provVars, dbExists>>

ProviderIsOpen(kind) ==
    /\ api' = [CallOn("is_open", kind) EXCEPT !.open = is_open(provider[kind])]
    /\ UNCHANGED <<wsVars, dbVars, upVars, testMsg, provVars, lifeVars>>

ProviderInit(answer, migration) ==
    /\ LET res == init(provider["mongo"], dbExists,
                       Database(groups, sensors, rtypes, readings), answer, migration)
       IN  /\ dbExists' = res.exists
           /\ groups' = res.db.groups
           /\ sensors' = res.db.sensors
           /\ rtypes' = res.db.rtypes
           /\ readings' = res.db.readings
           /\ api' = [CallOn("init", "mongo") EXCEPT
                        !.raised = res.raised, !.existed = dbExists,
                        !.migration = migration,
                        !.answer = IF provider["mongo"]._open /\ dbExists
                                   THEN answer ELSE "none"]
    /\ UNCHANGED <<wsVars, upVars, testMsg, provVars, provider>>

\* The _open test that opens the methods of MongoProvider, then the method.
CallInsertGroup(g) ==
    /\ IF ~provider["mongo"]._open
       THEN /\ api' = [CallOn("insert_group", "mongo") EXCEPT !.raised = TRUE]
            /\ UNCHANGED <<groups, dbExists>>
       ELSE LET res == insert_group(groups, g, g + 1)
            IN  /\ groups' = res.groups
                /\ dbExists' = TRUE
                /\ api' = CallOn("insert_group", "mongo")
    /\ UNCHANGED <<wsVars, sensors, rtypes, readings, upVars, testMsg, provVars, provider>>

CallInsertSensor(s, g) ==
    /\ IF ~provider["mongo"]._open
       THEN /\ api' = [CallOn("insert_sensor", "mongo") EXCEPT !.raised = TRUE]
            /\ UNCHANGED <<sensors, dbExists>>
       ELSE LET res == insert_sensor(sensors, s, g, s + 1)
            IN  /\ sensors' = res.sensors
                /\ dbExists' = TRUE
                /\ api' = CallOn("insert_sensor", "mongo")
    /\ UNCHANGED <<wsVars, groups, rtypes, readings, upVars, testMsg, provVars, provider>>

CallInsertReadings(doc) ==
    /\ IF ~provider["mongo"]._open
       THEN /\ api' = [CallOn("insert_readings", "mongo") EXCEPT !.raised = TRUE]
            /\ UNCHANGED <<readings, dbExists>>
       ELSE LET res == insert_readings(readings, <<doc>>, BATCH_SIZE)
            IN  /\ readings' = res.readings
                /\ dbExists' = TRUE
                /\ api' = [CallOn("insert_readings", "mongo") EXCEPT !.raised = ~res.result]
    /\ UNCHANGED <<wsVars, groups, sensors, rtypes, upVars, testMsg, provVars, provider>>

CallDoesRTypeExist(t) ==
    /\ api' = IF ~provider["mongo"]._open
              THEN [CallOn("does_rtype_exist", "mongo") EXCEPT !.raised = TRUE]
              ELSE [CallOn("does_rtype_exist", "mongo") EXCEPT
                      !.q = [NoQuery EXCEPT !.rtypeid = t],
                      !.open = does_rtype_exist(rtypes, t)]
    /\ UNCHANGED <<wsVars, dbVars, upVars, testMsg, provVars, lifeVars>>

FindMaxSensorId(kind, g) ==
    /\ LET p == provider[kind]
           res == IF kind = "sql" THEN sql_find_max_sensorid_in_group(p, SqlRows, g)
                  ELSE IF ~p._open THEN [err |-> TRUE, null |-> FALSE, max |-> 0]
                  ELSE [null |-> FALSE] @@ find_max_sensorid_in_group(sensors, g)
       IN  api' = [CallOn("find_max_sensorid_in_group", kind) EXCEPT
                     !.q = [NoQuery EXCEPT !.groupid = g],
                     !.raised = res.err, !.null = res.null, !.max = res.max]
    /\ UNCHANGED <<wsVars, dbVars, upVars, testMsg, provVars, lifeVars>>

\* MongoProvider.find_max_groupid has no _open test: before open() the
\* attribute _conn is missing; on a closed MongoClient the aggregate raises
\* or reconnects, depending on the pymongo installed (reconnects).
FindMaxGroupId(kind, reconnects) ==
    /\ LET p == provider[kind]
           res == IF kind = "sql" THEN sql_find_max_groupid(p, SqlRows)
                  ELSE IF p._conn = "unset" \/ (p._conn = "closed" /\ ~reconnects)
                  THEN [err |-> TRUE, null |-> FALSE, max |-> 0]
                  ELSE [null |-> FALSE] @@ find_max_groupid(groups)
       IN  api' = [CallOn("find_max_groupid", kind) EXCEPT
                     !.raised = res.err, !.null = res.null, !.max = res.max]
    /\ UNCHANGED <<wsVars, dbVars, upVars, testMsg, provVars, lifeVars>>

\* A provider of each class has been constructed; the database is absent.
InitLife ==
    /\ InitRegistry
    /\ InitRequests
    /\ provider = [k \in Providers |-> NewProvider]
    /\ dbExists = FALSE
    /\ groups = {}
    /\ sensors = {}
    /\ rtypes = {}
    /\ readings = {}

-----------------------------------------------------------------------------
(***************************************************************************)
(* senslify/sockets.py: ws_handler message by message, with the reply it   *)
(* sends, and senslify/verify.py: _verify_join_command.                    *)
(***************************************************************************)
NumViewers == 1        \* connections whose messages are followed with their replies

Viewers == 1..NumViewers

\* A JSON value: a number (or numeral), or a string that is no numeral.
JInt(n) == [t |-> "int", v |-> n]

JStr == [t |-> "str", v |-> 0]

\* int(x): raises for a string that is no numeral.
PyInt(x) == [raised |-> x.t # "int", val |-> x.v]

WithoutField(f, k) == [x \in (DOMAIN f) \ {k} |-> f[x]]

WithField(f, k, v) == [x \in DOMAIN f |-> IF x = k THEN v ELSE f[x]]

Object(f) == [text |-> "object", f |-> f]

\* A request with every field the commands read.
Request(cmd, g, s, t) ==
    [cmd |-> cmd, groupid |-> JInt(g), sensorid |-> JInt(s), rtypeid |-> JInt(t),
     start_date |-> JInt(1000), end_date |-> JInt(1000 + MaxTsOffset)]

WellFormed ==
    {Request("RQST_JOIN", 0, s, 0) : s \in SensorIds}
    \cup {Request("RQST_STREAM", 0, 0, t) : t \in StreamTypes}
    \cup {Request(cmd, 0, 0, 0) :
            cmd \in {"RQST_CLOSE", "RQST_SENSOR_STATS", "RQST_DOWNLOAD", "RQST_PING"}}

\* Requests with a field missing, not an integer or out of range.
Defective ==
    {WithoutField(Request("RQST_JOIN", 0, 0, 0), k) : k \in {"cmd", "groupid", "sensorid"}}
    \cup {WithField(Request("RQST_JOIN", 0, 0, 0), k, JStr) : k \in {"groupid", "sensorid"}}
    \cup {Request("RQST_JOIN", 0, -1, 0)}
    \cup {WithoutField(Request("RQST_STREAM", 0, 0, 0), "rtypeid"),
          WithField(Request("RQST_STREAM", 0, 0, 0), "rtypeid", JStr),
          WithoutField(Request("RQST_SENSOR_STATS", 0, 0, 0), "start_date"),
          WithField(Request("RQST_SENSOR_STATS", 0, 0, 0), "start_date", JStr),
          WithoutField(Request("RQST_DOWNLOAD", 0, 0, 0), "end_date"),
          WithField(Request("RQST_DOWNLOAD", 0, 0, 0), "end_date", JStr)}

\* The TEXT messages a viewer sends: text that is not JSON, JSON that is
\* falsy ({} or null), a JSON number, and JSON objects.
WsMessages ==
    {[text |-> x, f |-> EmptyDict] : x \in {"garbage", "empty", "number"}}
    \cup {Object(f) : f \in WellFormed \cup Defective}

Has(js, k) == k \in DOMAIN js.f

DOC_LIMIT == 100

\* The reply of a command whose storage call returned, and the one its except
\* clause sets.
OkReply(cmd) ==
    CASE cmd = "RQST_STREAM" -> "RESP_STREAM"
      [] cmd = "RQST_SENSOR_STATS" -> "RESP_SENSOR_STATS"
      [] cmd = "RQST_DOWNLOAD" -> "RESP_DOWNLOAD"

ErrorReply(cmd) ==
    CASE cmd = "RQST_STREAM" -> "RESP_ERROR"
      [] cmd = "RQST_SENSOR_STATS" -> "RESP_STATS_ERROR"
      [] cmd = "RQST_DOWNLOAD" -> "RESP_DOWNLOAD_ERROR"

AfterStorageCall_unreported(cmd, raised) == OkReply(cmd)

\* try: the storage call; except DBError (Exception for RQST_DOWNLOAD): the
\* error reply.  The reply is sent in either case.
AfterStorageCall(cmd, raised) == IF raised THEN ErrorReply(cmd) ELSE OkReply(cmd)

\* What get_readings_by_period(...) evaluates to: the method is an async def
\* with a yield, so the call makes an async generator and runs none of it.
PeriodCallType == "async_generator"

\* await x raises TypeError unless x is a coroutine (or another awaitable).
PyAwaitRaises(xtype) == xtype # "coroutine"

Outcome(rms, loc, op, reply, called, data, crash) ==
    [rooms |-> rms, locals |-> loc, op |-> op, reply |-> reply, called |-> called,
     data |-> data, crash |-> crash]

\* Lines 204-309: the branch of the command, the locals groupid and sensorid
\* being assigned.  dbfault: the storage call, if one is made, raises DBError.
dispatch(rms, loc, ws, js, store, dbfault) ==
    LET g == loc.groupid
        s == loc.sensorid
        cmd == js.f.cmd
        Reply(reply) == Outcome(rms, loc, "none", reply, FALSE, {<<>>}, FALSE)
    IN  CASE cmd = "RQST_JOIN" ->
               Outcome(_join(rms, g, s, ws), loc, "join", "RESP_JOIN", FALSE, {<<>>}, FALSE)
          [] cmd = "RQST_CLOSE" ->
               Outcome(_leave(_leave(rms, g, s, ws), g, s, ws), loc, "close", "none",
                       FALSE, {<<>>}, FALSE)
          [] cmd = "RQST_STREAM" ->
               IF ~Has(js, "rtypeid") \/ PyInt(js.f.rtypeid).raised
               THEN Reply("RESP_ERROR")
               ELSE LET t == PyInt(js.f.rtypeid).val
                    IN  Outcome(_change_stream(rms, g, s, ws, t), loc, "stream",
                                AfterStorageCall(cmd, dbfault), TRUE,
                                IF dbfault THEN {<<>>}
                                ELSE get_readings(store, s, g, t, DOC_LIMIT), FALSE)
          [] cmd = "RQST_SENSOR_STATS" ->
               IF \/ ~Has(js, "rtypeid") \/ ~Has(js, "start_date") \/ ~Has(js, "end_date")
                  \/ PyInt(js.f.rtypeid).raised \/ PyInt(js.f.start_date).raised
                  \/ PyInt(js.f.end_date).raised
               THEN Reply("RESP_STATS_ERROR")
               ELSE LET res == stats_sensor(store, s, g, PyInt(js.f.rtypeid).val,
                                            PyInt(js.f.start_date).val,
                                            PyInt(js.f.end_date).val)
                    IN  Outcome(rms, loc, "none",
                                AfterStorageCall(cmd, dbfault \/ res.raised), TRUE,
                                {<<>>}, FALSE)
          [] cmd = "RQST_DOWNLOAD" ->
               IF \/ ~Has(js, "start_date") \/ ~Has(js, "end_date")
                  \/ PyInt(js.f.start_date).raised \/ PyInt(js.f.end_date).raised
               THEN Reply("RESP_DOWNLOAD_ERROR")
               ELSE LET p == [_open |-> TRUE, _conn |-> "live", _is_open |-> "unset"]
                        res == get_readings_by_period(p, store, s, g,
                                                      PyInt(js.f.start_date).val,
                                                      PyInt(js.f.end_date).val)
                        raised == PyAwaitRaises(PeriodCallType) \/ dbfault \/ res.raised
                    IN  Outcome(rms, loc, "none", AfterStorageCall(cmd, raised), TRUE,
                                IF raised THEN {<<>>} ELSE res.docs, FALSE)
          [] OTHER -> Reply("none")

\* Lines 163-200 and the dispatch: one TEXT message taken off the socket.
handle(rms, loc, ws, js, store, dbfault) ==
    LET Reply(reply, l) == Outcome(rms, l, "none", reply, FALSE, {<<>>}, FALSE)
    IN  IF js.text \in {"garbage", "empty"} THEN Reply("RESP_ERROR", loc)
        ELSE IF js.text = "number"
        THEN Outcome(rms, loc, "none", "none", FALSE, {<<>>}, TRUE)
        ELSE IF ~Has(js, "cmd") \/ ~Has(js, "groupid") \/ ~Has(js, "sensorid")
        THEN Reply("RESP_ERROR", loc)
        ELSE IF PyInt(js.f.groupid).raised THEN Reply("RESP_ERROR", loc)
        ELSE IF PyInt(js.f.sensorid).raised
        THEN Reply("RESP_ERROR",
                   [loc EXCEPT !.bound = TRUE, !.groupid = PyInt(js.f.groupid).val])
        ELSE dispatch(rms, Bound(PyInt(js.f.groupid).val, PyInt(js.f.sensorid).val),
                      ws, js, store, dbfault)

\* One message of viewer c handled up to the continue, break or exception
\* that ends it.  sent: ws.send_str of the reply succeeds.
WsHandle(c, js, dbfault, sent) ==
    /\ wsState[c] = "open"
    /\ LET res == handle(rooms, wsLocals[c], c, js, readings, dbfault)
           g == res.locals.groupid
           s == res.locals.sensorid
           key == <<g, s>>
       IN  /\ rooms' = res.rooms
           /\ wsLocals' = [wsLocals EXCEPT ![c] = res.locals]
           /\ wsState' = [wsState EXCEPT ![c] =
                            IF res.crash THEN "crashed"
                            ELSE IF res.op = "close" THEN "closed"
                            ELSE IF res.reply = "none" THEN "open"
                            ELSE AfterSend(sent)]
           /\ streamed' =
                CASE res.op = "join" ->
                       (streamed \cap Members(rooms'))
                         \ (IF <<c, key>> \in Members(rooms) THEN {} ELSE {<<c, key>>})
                  [] res.op = "stream" ->
                       IF _does_ws_exist(rooms, g, s, c)
                       THEN streamed \cup {<<c, key>>} ELSE streamed
                  [] OTHER -> streamed \cap Members(rooms')
           /\ left' = CASE res.op = "join" -> LeftWithout(c, key)
                        [] res.op = "close" -> LeftAfterLeave(c, g, s)
                        [] OTHER -> left
           /\ \E d \in res.data :
                wsReply' = [to |-> c, rq |-> js, cmd |-> res.reply, called |-> res.called,
                            dbfault |-> res.called /\ dbfault,
                            sent |-> res.reply # "none" /\ sent, data |-> d]
           /\ shutdown' = IF res.op = "join" THEN Rebind(shutdown, rooms, g, s) ELSE shutdown
    /\ UNCHANGED <<inbox, expect, dbVars, upVars, testMsg, provVars, apiVars, lifeVars>>

\* _verify_join_command.
_verify_join_command(params, grps, sens) ==
    IF "groupid" \notin DOMAIN params THEN [valid |-> FALSE, reason |-> "groupid missing"]
    ELSE IF "sensorid" \notin DOMAIN params THEN [valid |-> FALSE, reason |-> "sensorid missing"]
    ELSE IF PyInt(params.groupid).raised \/ PyInt(params.sensorid).raised
    THEN [valid |-> FALSE, reason |-> "type"]
    ELSE IF PyInt(params.groupid).val < 0 THEN [valid |-> FALSE, reason |-> "groupid range"]
    ELSE IF PyInt(params.sensorid).val < 0 THEN [valid |-> FALSE, reason |-> "sensorid range"]
    ELSE IF ~does_group_exist(grps, PyInt(params.groupid).val)
    THEN [valid |-> FALSE, reason |-> "no such group"]
    ELSE IF ~does_sensor_exist(sens, PyInt(params.sensorid).val, PyInt(params.groupid).val)
    THEN [valid |-> FALSE, reason |-> "no such sensor"]
    ELSE [valid |-> TRUE, reason |-> "none"]

\* Readings uploaded for sensor 0 of group 0 before the viewers connect.
WsStored ==
    {ReadingAt(0, 0, t, 1000 + t, 225) : t \in StreamTypes}

InitWs ==
    /\ InitRegistry
    /\ InitRequests
    /\ InitOpened
    /\ groups = {[groupid |-> 0, alias |-> 1]}
    /\ sensors = {[sensorid |-> 0, groupid |-> 0, alias |-> 2]}
    /\ rtypes = SeedRTypes
    /\ readings = WsStored

-----------------------------------------------------------------------------
(***************************************************************************)
(* senslify/sockets.py: socket_shutdown_handler, registered on             *)
(* app.on_shutdown.  The handlers of the connections run at its awaits.    *)
(***************************************************************************)
\* ws.close() called by the server: the message loop of the connection's
\* handler ends at its next receive.
ServerClosed(wst, sh) ==
    IF sh.pc = "await" /\ wst[sh.closing] = "open"
    THEN [wst EXCEPT ![sh.closing] = "closing"] ELSE wst

\* The server shuts down: the handler runs up to its first await.
ShutdownBegin ==
    /\ shutdown.pc = "idle"
    /\ LET start == [IdleShutdown EXCEPT
                        !.outerLen = Cardinality(DOMAIN rooms),
                        !.members0 = {p[1] : p \in Members(rooms)}]
           sh == socket_shutdown_handler(start, rooms, wsState)
       IN  /\ shutdown' = sh
           /\ wsState' = ServerClosed(wsState, sh)
    /\ UNCHANGED <<rooms, wsLocals, inbox, streamed, left, expect, wsReply,
                   dbVars, upVars, testMsg, provVars, apiVars, lifeVars>>

\* The awaited ws.close() returns: the handler runs on to its next await.
ShutdownResume ==
    /\ shutdown.pc = "await"
    /\ LET sh == socket_shutdown_handler(shutdown, rooms, wsState)
       IN  /\ shutdown' = sh
           /\ wsState' = ServerClosed(wsState, sh)
    /\ UNCHANGED <<rooms, wsLocals, inbox, streamed, left, expect, wsReply,
                   dbVars, upVars, testMsg, provVars, apiVars, lifeVars>>

-----------------------------------------------------------------------------
NextRooms ==
    \/ \E c \in Conns, g \in RoomGroupIds, s \in SensorIds, sent \in BOOLEAN :
          WsJoin(c, g, s, sent)
    \/ \E c \in Conns, g \in RoomGroupIds, s \in SensorIds : WsClose(c, g, s)
    \/ \E c \in Conns, g \in RoomGroupIds, s \in SensorIds, t \in StreamTypes,
          sent \in BOOLEAN : WsStream(c, g, s, t, sent)
    \/ \E c \in Conns, g \in RoomGroupIds, s \in SensorIds, sent \in BOOLEAN :
          WsOther(c, g, s, sent)
    \/ \E c \in Conns, b \in BOOLEAN, g \in RoomGroupIds, sent \in BOOLEAN :
          WsInvalid(c, b, g, sent)
    \/ \E c \in Conns : WsPeerClose(c)
    \/ \E c \in Conns : WsError(c)
    \/ \E batch \in Batches : UploadBegin(batch)
    \/ \E broken \in SUBSET Conns : UploadMessage(broken)
    \/ \E fault \in BOOLEAN : UploadInsert(fault)

NextShutdown ==
    \/ \E c \in Conns, g \in RoomGroupIds, s \in SensorIds, sent \in BOOLEAN :
          WsJoin(c, g, s, sent)
    \/ \E c \in Conns, g \in RoomGroupIds, s \in SensorIds : WsClose(c, g, s)
    \/ \E c \in Conns : WsPeerClose(c)
    \/ \E c \in Conns : WsError(c)
    \/ ShutdownBegin
    \/ ShutdownResume

NextProv ==
    \/ \E p \in ProvSlots, g \in GroupIds, fault \in BOOLEAN : ProvLookup(p, g, fault)
    \/ \E p \in ProvSlots, fault \in BOOLEAN : ProvInsert(p, fault)
    \/ \E fault \in BOOLEAN : ProvGroup(fault)
    \/ \E target \in Targets, g \in GroupIds, s \in SensorIds : RestProvision(target, g, s)

NextStore ==
    \/ \E doc \in StoreReadings : StoreInsert(doc)
    \/ \E s \in SensorIds, g \in GroupIds, t \in StreamTypes, limit \in Limits :
          GetReadings(s, g, t, limit)
    \/ \E s \in SensorIds, g \in GroupIds, t \in StreamTypes, lo \in TsValues, hi \in TsValues :
          StatsSensor(s, g, t, lo, hi)
    \/ \E g \in GroupIds, t \in StreamTypes, lo \in TsValues, hi \in TsValues :
          StatsGroup(g, t, lo, hi)
    \/ \E kind \in Providers, s \in SensorIds, g \in GroupIds, lo \in TsValues, hi \in TsValues :
          GetReadingsByPeriod(kind, s, g, lo, hi)
    \/ \E g \in GroupIds : DeleteGroup(g)
    \/ \E t \in StreamTypes : DeleteRType(t)

NextBatch ==
    \/ \E docs \in ListsOver(BatchReadings), batch_size \in BatchSizes :
          InsertReadings(docs, batch_size)

NextDelete ==
    \/ \E doc \in StoreReadings : StoreInsert(doc)
    \/ \E kind \in Providers, s \in SensorIds, g \in GroupIds, a \in RTypeArgs :
          DeleteReadings(kind, s, g, a)

NextMessage ==
    \/ \E kwargs \in Kwargs(MsgKeys) : MessageNew(kwargs)
    \/ MessageClear

NextLife ==
    \/ \E kind \in Providers : ProviderOpen(kind)
    \/ \E kind \in Providers : ProviderClose(kind)
    \/ \E kind \in Providers : ProviderIsOpen(kind)
    \/ \E answer \in Answers, migration \in BOOLEAN : ProviderInit(answer, migration)
    \/ \E g \in GroupIds : CallInsertGroup(g)
    \/ \E s \in SensorIds, g \in GroupIds : CallInsertSensor(s, g)
    \/ CallInsertReadings(Reading(0, 0, 0))
    \/ \E t \in SeedRTypes : CallDoesRTypeExist(t)
    \/ \E kind \in Providers, g \in GroupIds : FindMaxSensorId(kind, g)
    \/ \E kind \in Providers, reconnects \in BOOLEAN : FindMaxGroupId(kind, reconnects)

NextWs ==
    \E c \in Viewers, js \in WsMessages, dbfault \in BOOLEAN, sent \in BOOLEAN :
        WsHandle(c, js, dbfault, sent)

Next == NextRooms \/ NextProv \/ NextStore \/ NextLife \/ NextWs \/ NextShutdown \/ NextBatch \/ NextDelete
          \/ NextMessage

\* The viewers and the upload path over a provisioned storage.
SpecRooms == InitProvisioned /\ [][NextRooms]_vars

\* The provisioning requests over an initially empty storage.
SpecProv == Init /\ [][NextProv]_vars

\* The calls on the provider over a provisioned storage.
SpecStore == InitStore /\ [][NextStore]_vars

\* The provider classes from construction on, over an absent database.
SpecLife == InitLife /\ [][NextLife]_vars

\* The messages of the viewers and their replies, over a storage with readings.
SpecWs == InitWs /\ [][NextWs]_vars

\* insert_readings over lists of readings and batch sizes.
SpecBatch == InitStore /\ [][NextBatch]_vars

\* delete_readings of both providers over a storage that readings are inserted into.
SpecDelete == InitStore /\ [][NextDelete]_vars

\* Message objects built from keyword arguments, and cleared.
SpecMessage == Init /\ [][NextMessage]_vars

\* The server shutdown among the handlers of the connections.
SpecShutdown == InitProvisioned /\ [][NextShutdown]_vars

Spec == Init /\ [][Next]_vars

-----------------------------------------------------------------------------
(***************************************************************************)
(* Properties of the session registry and the broadcast dispatcher,        *)
(* checked under SpecRooms.                                                *)
(***************************************************************************)

\* C1: every connection has received exactly one RESP_READING for each
\* reading handed to message while it was a member of the reading's room with
\* the reading's type selected, and nothing else.
C1_ExactlyOnePerMatchingMember ==
    \A c \in Conns : Len(inbox[c]) = expect[c]

NotStreamed == Members(rooms) \ streamed

C3_NoBroadcastAfterLeave ==
    \A e \in left :
        /\ ~_does_ws_exist(rooms, e[2][1], e[2][2], e[1])
        /\ \A t \in StreamTypes, broken \in SUBSET Conns :
              e[1] \notin SeqRange(message(rooms, e[2][1], e[2][2],
                                           Reading(e[2][1], e[2][2], t), broken).sent)
        /\ Len(inbox[e[1]]) <= expect[e[1]]

\* A member left its room, another connection is in the room and message has
\* been called for the room since.
C3_Witness ==
    \E e \in left : e[3] /\ e[4] /\ e[2] \in DOMAIN rooms /\ rooms[e[2]] # EmptyDict

\* C4: when a handler terminates while its connection is a member of one room
\* only (the room it joined), the connection is not a member of it afterwards.
C4_LeaveOnTermination ==
    [][\A c \in Conns :
         (wsState[c] = "open" /\ wsState'[c] # "open") =>
             \A k \in DOMAIN rooms :
                 (c \in DOMAIN rooms[k] /\ {p \in Members(rooms) : p[1] = c} = {<<c, k>>})
                     => ~(k \in DOMAIN rooms' /\ c \in DOMAIN rooms'[k])]_vars

\* C6: an upload during which message raised has persisted every reading of
\* its batch and replied with success.
C6_BroadcastFailureIsolated ==
    (up.pc = "idle" /\ up.raised) =>
        /\ up.reply = "OK"
        /\ \A i \in 1..Len(up.batch) : Stored(readings, up.batch[i])

\* C7: every reading the upload path has handed to the dispatcher is stored.
C7_PersistedBeforeBroadcast ==
    \A r \in handed : Stored(readings, r)

\* C16: an upload whose batch holds a reading of a reading type that is not
\* stored ends with the 400 reply in the step that verifies it: the request is
\* over, nothing is persisted and nothing is handed to message or delivered.
C16_BadRTypeRejectsBatch ==
    [][uploads' # uploads =>
         \A batch \in Batches :
            (UploadBegin(batch) /\ \E i \in 1..Len(batch) :
                                       ~does_rtype_exist(rtypes, batch[i].rtypeid))
               => /\ up'.pc = "idle" /\ up'.reply = "400"
                  /\ readings' = readings
                  /\ handed' = handed
                  /\ inbox' = inbox]_vars

\* An upload was rejected for the reading type of a reading that follows a
\* valid one, while a viewer is in a room.
C16_Witness ==
    /\ up.pc = "idle" /\ up.reply = "400" /\ up.reason = "rtype" /\ up.idx >= 2
    /\ Members(rooms) # {}
    /\ readings = {} /\ handed = {}

-----------------------------------------------------------------------------
(***************************************************************************)
(* Properties of sensor provisioning, checked under SpecProv.              *)
(***************************************************************************)
Succeeded(g) == {i \in 1..Len(provLog) : provLog[i].groupid = g /\ provLog[i].status = 200}

\* The requests for group g ran one after the other and none of their
\* storage calls failed.
SequentialAndHealthy(g) ==
    /\ \A i \in 1..Len(provLog) :
          provLog[i].groupid = g =>
              ~provLog[i].overlapped /\ ~provLog[i].faulty /\ provLog[i].status = 200
    /\ \A p \in InFlight : prov[p].groupid # g

C9_SequentialIds ==
    \A g \in GroupIds :
        SequentialAndHealthy(g) =>
            /\ \A i \in Succeeded(g) :
                  provLog[i].sensorid = Cardinality({j \in Succeeded(g) : j < i})
            /\ Cardinality({d \in sensors : d.groupid = g}) = Cardinality(Succeeded(g))
            /\ {d.sensorid : d \in {x \in sensors : x.groupid = g}}
                  = 0..(Cardinality(Succeeded(g)) - 1)

\* Two or more sequential requests for one group have been answered, and a
\* request for another group.
C9_Witness ==
    \E g \in GroupIds :
        /\ SequentialAndHealthy(g)
        /\ Cardinality(Succeeded(g)) >= 2
        /\ \E h \in GroupIds : h # g /\ Succeeded(h) # {} /\ SequentialAndHealthy(h)

\* C10: a successful request for a group that did not exist has sensorid 0 and
\* leaves the group and its sensor 0 in storage.
C10_CreatesMissingGroup ==
    \A i \in 1..Len(provLog) :
        (provLog[i].status = 200 /\ ~provLog[i].groupExisted) =>
            /\ provLog[i].sensorid = 0
            /\ does_group_exist(groups, provLog[i].groupid)
            /\ does_sensor_exist(sensors, 0, provLog[i].groupid)

\* C11: a provision request with target 'sensor' or 'group' is not rejected
\* for its target, and a request with any other target is rejected with 400.
C11_ProvisionTargetsAccepted ==
    api.op = "provision" =>
        /\ api.target \in {"sensor", "group"} => api.reason # "target"
        /\ api.target \notin {"sensor", "group"} => api.status = 400

\* C12: from every registry state, for every connection and room, joining
\* twice in a row gives the registry that joining once gives, and the
\* connection is a member of the room (a key of the room's dict: once).
C12_JoinIdempotent ==
    \A c \in Conns, g \in RoomGroupIds, s \in SensorIds :
        LET once == _join(rooms, g, s, c)
        IN  /\ _join(once, g, s, c) = once
            /\ _does_ws_exist(once, g, s, c)

\* The registry is the outcome of a join that a second join repeats, while
\* another connection is in another room.
C12_Witness ==
    \E p \in Members(rooms) :
        /\ _join(rooms, p[2][1], p[2][2], p[1]) = rooms
        /\ \E q \in Members(rooms) : q[1] # p[1]

\* C13: a join of a connection that is already a member of the room leaves the
\* registry as it is: the connection's filter, the members, their filters.
C13_JoinOfMemberHasNoEffect ==
    \A p \in Members(rooms) : _join(rooms, p[2][1], p[2][2], p[1]) = rooms

-----------------------------------------------------------------------------
(***************************************************************************)
(* Properties of the storage provider, checked under SpecStore (C15 under  *)
(* SpecProv).                                                              *)
(***************************************************************************)

\* C14: after delete_group(g) no sensor and no reading of group g remains and
\* the group does not exist; after delete_rtype(t) no reading of type t
\* remains and the reading type does not exist.
C14_CascadeDeleteComplete ==
    /\ api.op = "delete_group" =>
          /\ \A d \in sensors : d.groupid # api.q.groupid
          /\ \A d \in readings : d.groupid # api.q.groupid
          /\ ~does_group_exist(groups, api.q.groupid)
    /\ api.op = "delete_rtype" =>
          /\ \A d \in readings : d.rtypeid # api.q.rtypeid
          /\ ~does_rtype_exist(rtypes, api.q.rtypeid)

\* C15: every stored sensor references a group that exists and every stored
\* reading references a sensor and a reading type that exist.
C15_ReferentialIntegrity ==
    /\ \A d \in sensors : does_group_exist(groups, d.groupid)
    /\ \A r \in readings :
          /\ does_sensor_exist(sensors, r.sensorid, r.groupid)
          /\ does_rtype_exist(rtypes, r.rtypeid)

\* The stored readings of a sensor, group and reading type.
Series(sensorid, groupid, rtypeid) ==
    {d \in readings : d.sensorid = sensorid /\ d.groupid = groupid /\ d.rtypeid = rtypeid}

\* C17: get_readings(sensorid, groupid, rtypeid, limit) yields only readings
\* of that sensor, group and type, at most limit of them, in strictly
\* descending ts, and no stored reading of the series it left out is newer
\* than one it yielded (nor left out while fewer than limit were yielded).
C17_GetReadingsNewestOfType ==
    api.op = "get_readings" =>
        LET out == api.docs
            all == Series(api.q.sensorid, api.q.groupid, api.q.rtypeid)
            limit == api.q.lo
        IN  /\ \A i \in 1..Len(out) : out[i] \in all
            /\ Len(out) = Min2(limit, Cardinality(all))
            /\ \A i, j \in 1..Len(out) : i < j => out[i].ts > out[j].ts
            /\ \A d \in all \ SeqRange(out) : \A i \in 1..Len(out) : d.ts < out[i].ts

\* C18: after a reading r has been inserted, r being the newest stored
\* reading of its sensor, group and type, get_readings(r.sensorid, r.groupid,
\* r.rtypeid, limit = 1) yields r and nothing else.
C18_InsertThenLatest ==
    (api.op = "insert_readings" /\ ~api.raised) =>
        LET r == api.docs[1]
        IN  (\A d \in Series(r.sensorid, r.groupid, r.rtypeid) : d.ts <= r.ts) =>
                \A out \in get_readings(readings, r.sensorid, r.groupid, r.rtypeid, 1) :
                    out = <<r>>

\* The stored readings a stats query covers: those of the group and reading
\* type (and of the sensor, in the sensor scope) with start_ts <= ts <= end_ts.
InWindow ==
    {d \in readings :
        /\ d.groupid = api.q.groupid /\ d.rtypeid = api.q.rtypeid
        /\ api.op = "stats_sensor" => d.sensorid = api.q.sensorid
        /\ api.q.lo <= d.ts /\ d.ts <= api.q.hi}

\* C19: in both scopes a stats query that no stored reading matches returns
\* {min: 0, max: 0, avg: 0} and raises nothing.
C19_EmptyWindowGivesZeros ==
    (api.op \in {"stats_sensor", "stats_group"} /\ InWindow = {}) =>
        /\ ~api.raised
        /\ api.reason = "stats"
        /\ api.stats = [min |-> 0, max |-> 0, avg |-> <<0, 1>>]

\* C20: in both scopes a stats query that stored readings match returns the
\* minimum, the maximum and the arithmetic mean of the values of exactly the
\* matching readings.
C20_StatsExact ==
    (api.op \in {"stats_sensor", "stats_group"} /\ InWindow # {}) =>
        /\ ~api.raised
        /\ api.reason = "stats"
        /\ api.stats = [min |-> MinVal(InWindow), max |-> MaxVal(InWindow),
                        avg |-> Fraction(SumVal(InWindow), Cardinality(InWindow))]

\* C21: in the document-store provider and in the relational provider alike,
\* get_readings_by_period(sensorid, groupid, start_ts, end_ts) raises nothing
\* and yields, each once, exactly the stored readings of that sensor and
\* group with start_ts <= ts <= end_ts.
C21_PeriodExactInclusive ==
    api.op = "get_readings_by_period" =>
        /\ ~api.raised
        /\ SeqRange(api.docs) =
              {d \in readings : /\ d.sensorid = api.q.sensorid /\ d.groupid = api.q.groupid
                                /\ api.q.lo <= d.ts /\ d.ts <= api.q.hi}
        /\ \A i, j \in 1..Len(api.docs) : i < j => api.docs[i] # api.docs[j]

-----------------------------------------------------------------------------
(***************************************************************************)
(* Properties of the provider from its construction on, checked under      *)
(* SpecLife.  Every action of SpecLife records its call in api, so the     *)
(* provider attributes of a state are those the recorded call found.       *)
(***************************************************************************)
\* The provider of class kind holds a connection that open() made and
\* close() has not closed.
Connected(kind) == provider[kind]._open /\ provider[kind]._conn = "live"

\* The greatest id of a set of ids, -1 for the empty set.
MaxOrSentinel(ids) == IF ids = {} THEN -1 ELSE SetMax(ids)

\* C22: on an open provider find_max_sensorid_in_group(g) raises nothing and
\* returns the greatest sensorid among the stored sensors of group g, -1 when
\* the group has none; find_max_groupid returns the greatest stored groupid,
\* -1 when there is no group.
C22_MaxIdScopedOrSentinel ==
    /\ (api.op = "find_max_sensorid_in_group" /\ Connected(api.target)) =>
          LET rows == IF api.target = "sql" THEN SqlRows ELSE sensors
          IN  /\ ~api.raised /\ ~api.null
              /\ api.max =
                    MaxOrSentinel({d.sensorid : d \in {e \in rows : e.groupid = api.q.groupid}})
    /\ (api.op = "find_max_groupid" /\ Connected(api.target)) =>
          LET rows == IF api.target = "sql" THEN SqlRows ELSE groups
          IN  /\ ~api.raised /\ ~api.null
              /\ api.max = MaxOrSentinel({d.groupid : d \in rows})

DataOps ==
    {"insert_group", "insert_sensor", "insert_readings", "does_rtype_exist",
     "find_max_sensorid_in_group", "find_max_groupid"}

\* C23: a data operation called on a provider whose connection is not open
\* raises DBError, and once close() has returned is_open() is false.
C23_ClosedProviderFails ==
    /\ (api.op \in DataOps /\ ~Connected(api.target)) => api.raised
    /\ (api.op = "close" /\ ~api.raised) => ~is_open(provider[api.target])

\* C24: an init that finds the database existing and is not answered y
\* leaves the groups, sensors, rtypes and readings as they were, leaves the
\* database in existence and raises nothing.
C24_InitUnconfirmedKeepsData ==
    [][(api'.op = "init" /\ api'.existed /\ PyLower(api'.answer) # "y") =>
          (dbVars' = dbVars /\ dbExists' = dbExists /\ ~api'.raised)]_vars

\* An init answered n has returned on a database that holds a group, a
\* sensor, the rtypes and a reading.
C24_Witness ==
    /\ api.op = "init" /\ api.existed /\ api.answer = "n"
    /\ groups # {} /\ sensors # {} /\ rtypes # {} /\ readings # {}

\* C25: after init(migration=False) on an open provider has returned without
\* error, the database having been absent or the operator having answered y,
\* does_rtype_exist is true of each of the rtypeids 0..4.
C25_SeedRTypesAfterInit ==
    (/\ api.op = "init" /\ ~api.raised /\ ~api.migration
     /\ is_open(provider["mongo"])
     /\ (~api.existed \/ PyLower(api.answer) = "y")) =>
        \A t \in SeedRTypes : does_rtype_exist(rtypes, t)

-----------------------------------------------------------------------------
(***************************************************************************)
(* Properties of ws_handler and its replies, checked under SpecWs, where   *)
(* wsReply holds the message handled by the last step and its reply.       *)
(***************************************************************************)
KnownCmds ==
    {"RQST_JOIN", "RQST_CLOSE", "RQST_STREAM", "RQST_SENSOR_STATS", "RQST_DOWNLOAD"}

ErrorReplies == {"RESP_ERROR", "RESP_STATS_ERROR", "RESP_DOWNLOAD_ERROR"}

\* The fields a command needs besides cmd, groupid and sensorid.
RequiredFields(cmd) ==
    CASE cmd = "RQST_STREAM" -> {"rtypeid"}
      [] cmd = "RQST_SENSOR_STATS" -> {"rtypeid", "start_date", "end_date"}
      [] cmd = "RQST_DOWNLOAD" -> {"start_date", "end_date"}
      [] OTHER -> {}

\* The message is not JSON, is empty or no object, lacks a required field,
\* carries a required number that is no integer or is negative, or names an
\* unknown cmd.
Malformed(js) ==
    \/ js.text # "object"
    \/ ~Has(js, "cmd") \/ ~Has(js, "groupid") \/ ~Has(js, "sensorid")
    \/ js.f.cmd \notin KnownCmds
    \/ \E k \in RequiredFields(js.f.cmd) \cup {"groupid", "sensorid"} :
          ~Has(js, k) \/ PyInt(js.f[k]).raised \/ PyInt(js.f[k]).val < 0

\* C26: the step that handles a malformed message sends one error reply and
\* leaves the rooms as they were, and the connection is open after it when
\* the reply could be sent.
C26_InvalidMessageOneErrorReply ==
    [][Malformed(wsReply'.rq) =>
          /\ wsReply'.cmd \in ErrorReplies
          /\ rooms' = rooms
          /\ wsReply'.sent => wsState'[wsReply'.to] = "open"]_vars

\* C27: after a RQST_JOIN that _verify_join_command refuses because the group
\* or the sensor is not stored, the reply is an error reply, the room does not
\* exist and the connection is no member of it.
C27_JoinUnprovisionedRefused ==
    (/\ wsReply.rq.text = "object" /\ Has(wsReply.rq, "cmd")
     /\ wsReply.rq.f.cmd = "RQST_JOIN"
     /\ _verify_join_command(wsReply.rq.f, groups, sensors).reason
           \in {"no such group", "no such sensor"}) =>
        LET g == PyInt(wsReply.rq.f.groupid).val
            s == PyInt(wsReply.rq.f.sensorid).val
        IN  /\ wsReply.cmd \in ErrorReplies
            /\ ~_does_room_exist(rooms, g, s)
            /\ ~_does_ws_exist(rooms, g, s, wsReply.to)

\* C28: the step in which the storage call of RQST_STREAM, RQST_SENSOR_STATS
\* or RQST_DOWNLOAD raises DBError sends the error reply of the command; when
\* the reply could be sent the connection is open after it, and it is a
\* member of every room it was a member of.
C28_StorageFailureReported ==
    [][(wsReply'.called /\ wsReply'.dbfault) =>
          LET c == wsReply'.to
          IN  /\ wsReply'.cmd = ErrorReply(wsReply'.rq.f.cmd)
              /\ wsReply'.sent =>
                    /\ wsState'[c] = "open"
                    /\ \A k \in DOMAIN rooms :
                          c \in DOMAIN rooms[k] => _does_ws_exist(rooms', k[1], k[2], c)]_vars

\* get_readings raised DBError for the RQST_STREAM of a member of room (0, 0),
\* the error reply was sent and the connection is still a member.
C28_Witness ==
    /\ wsReply.called /\ wsReply.dbfault /\ wsReply.sent
    /\ wsReply.rq.f.cmd = "RQST_STREAM"
    /\ wsReply.cmd = "RESP_ERROR"
    /\ _does_ws_exist(rooms, 0, 0, wsReply.to)
    /\ wsState[wsReply.to] = "open"

\* C29: a well-formed RQST_DOWNLOAD handled without a storage failure is
\* answered with RESP_DOWNLOAD, whose data are the stored readings of the
\* sensor with start_date <= ts <= end_date.
C29_DownloadReturnsReadings ==
    (/\ ~Malformed(wsReply.rq) /\ wsReply.rq.f.cmd = "RQST_DOWNLOAD"
     /\ ~wsReply.dbfault) =>
        LET q == wsReply.rq.f
        IN  /\ wsReply.cmd = "RESP_DOWNLOAD"
            /\ SeqRange(wsReply.data) =
                  {d \in readings : /\ d.sensorid = q.sensorid.v /\ d.groupid = q.groupid.v
                                    /\ q.start_date.v <= d.ts /\ d.ts <= q.end_date.v}

\* C30 (checked under SpecRooms): in every state of the registry that joins,
\* leaves and filter changes interleaved with the dispatches of an upload
\* produce, a broadcast to a room, the sends succeeding, raises nothing and
\* is sent to exactly the members of the room that match when it starts.
C30_BroadcastSurvivesInterleaving ==
    \A k \in DOMAIN rooms, t \in StreamTypes :
        LET res == message(rooms, k[1], k[2], Reading(k[1], k[2], t), {})
        IN  ~res.raised /\ SeqRange(res.sent) = Matching(rooms, k, t)

C33_TerminatedIsMemberOfNoRoom ==
    \A c \in Conns :
        wsState[c] # "open" => \A p \in Members(rooms) : p[1] # c

\* C34 (checked under SpecRooms): when the upload handler has replied 'OK',
\* every reading of the batch it was given is in the readings collection.
C34_OkOnlyIfPersisted ==
    (up.pc = "idle" /\ up.reply = "OK") =>
        \A i \in 1..Len(up.batch) : Stored(readings, up.batch[i])

\* C35 (checked under SpecRooms): an upload whose batch passed verification
\* ends with the reply 'OK' whatever the registry holds for the rooms of its
\* readings: no registry state makes it end with the error reply, which is
\* given before insert_readings is reached.
C35_UploadIndependentOfRegistry ==
    (up.pc = "idle" /\ up.reply \notin {"none", "400"}) => up.reply = "OK"

\* C36 (checked under SpecProv): a sensor provisioning whose max-id lookup
\* failed in the backend is answered with an error, and no sensor provisioning
\* is answered with success for a sensorid it did not insert.
C36_LookupFaultReported ==
    \A i \in 1..Len(provLog) :
        /\ provLog[i].faulty => provLog[i].status # 200
        /\ provLog[i].status = 200 => provLog[i].inserted

\* C37 (checked under SpecShutdown): socket_shutdown_handler raises nothing,
\* whatever the handlers of the connections do at its awaits, and when it has
\* completed every connection that was a member of a room when it started is
\* closed.
C37_ShutdownClosesAllWithoutError ==
    /\ shutdown.pc # "raised"
    /\ shutdown.pc = "done" =>
           \A c \in shutdown.members0 : ws_closed(shutdown, wsState, c)

RECURSIVE Flatten(_)
Flatten(ss) == IF ss = <<>> THEN <<>> ELSE Head(ss) \o Flatten(Tail(ss))

\* C38 (checked under SpecBatch): a call of insert_readings with batch_size >= 1
\* that no insert_many failed has given insert_many the readings of the list,
\* each once and in the order of the list, in consecutive chunks that are not
\* empty and hold batch_size readings, the last one at most batch_size; for the
\* empty list insert_many is not called.  (The call has returned: the loop ended.)
C38_ChunksCoverListInOrder ==
    (api.op = "insert_readings" /\ ~api.raised) =>
        LET n == Len(api.chunks)
        IN  /\ Flatten(api.chunks) = api.docs
            /\ \A i \in 1..n :
                  /\ Len(api.chunks[i]) >= 1
                  /\ Len(api.chunks[i]) <= api.batch_size
                  /\ i < n => Len(api.chunks[i]) = api.batch_size
            /\ api.docs = <<>> => n = 0

C38_Witness ==
    /\ api.op = "insert_readings" /\ ~api.raised
    /\ Len(api.docs) = 3 /\ api.batch_size = 2
    /\ Len(api.chunks) = 2 /\ Len(api.chunks[2]) = 1

\* C39 (checked under SpecDelete): a call of delete_readings with a reading
\* type id, 0 included, removes from the stored readings exactly those of the
\* sensor, the group and that type; a call with None removes exactly those of
\* the sensor and the group.
C39_DeleteReadingsOfTypeOnly ==
    [][api'.op = "delete_readings" =>
          LET q == api'.q
              ofSensor == {d \in readings : d.sensorid = q.sensorid /\ d.groupid = q.groupid}
          IN  readings' = readings \ (IF q.rtypeid.none THEN ofSensor
                                      ELSE {d \in ofSensor : d.rtypeid = q.rtypeid.v})]_vars

\* C40 (checked under SpecMessage): a Message built from keyword arguments
\* answers len, in, get, keys and values with those arguments, in the order
\* they were written; after clear() its len is 0, it is falsy, it contains no
\* name and get of every name raises KeyError.
C40_MessageHoldsKwargs ==
    /\ testMsg.op = "__init__" =>
          LET d == testMsg.dict
              kw == testMsg.kwargs
          IN  /\ __len__(d) = Len(kw)
              /\ __bool__(d) = (Len(kw) > 0)
              /\ keys(d) = [raised |-> "none", v |-> [i \in 1..Len(kw) |-> kw[i][1]]]
              /\ values(d) = [raised |-> "none", v |-> [i \in 1..Len(kw) |-> kw[i][2]]]
              /\ \A i \in 1..Len(kw) :
                    /\ __contains__(d, kw[i][1])
                    /\ get(d, kw[i][1]) = [raised |-> "none", v |-> kw[i][2]]
              /\ \A k \in MsgKeys :
                    k \notin {kw[i][1] : i \in 1..Len(kw)} => ~__contains__(d, k)
    /\ testMsg.op = "clear" =>
          LET d == testMsg.dict
          IN  /\ __len__(d) = 0
              /\ ~__bool__(d)
              /\ \A k \in MsgKeys :
                    ~__contains__(d, k) /\ get(d, k).raised = "KeyError"

=============================================================================
